---- MODULE Spec2Model ----
(***************************************************************************)
(* A model of the cross-exchange arbitrage scanner (package `arbitrage`).  *)
(*                                                                         *)
(* Part 1: the SQLite key/value cache (cache.py), specification SpecKV.    *)
(*                                                                         *)
(* Conventions.  Python's None is the value None below; it is also what    *)
(* JSON null decodes to.  Python values stored in the cache are values of  *)
(* the JSON data model (null, booleans, numbers, strings, lists, objects   *)
(* with string keys), written as tagged records.  Floats are exact         *)
(* rationals or integers in scaled units.  Time is int(time.time()), whole *)
(* seconds.                                                                *)
(***************************************************************************)
EXTENDS Integers, Sequences, FiniteSets, TLC

VARIABLES
    kv,         \* table kv_store: a set of rows [k, v, updated_at]
    now,        \* int(time.time())
    written,    \* history: per key, the last value passed to set_json and when
    last,       \* history: the last cache operation and what it returned
    lm,         \* per exchange client: where its load_all_markets call stands
    lastLoad,   \* history: the last load_all_markets call that ended
    fob,        \* the fetch_order_book_safe call in progress
    sc,         \* the scan_two_exchanges call in progress
    fo,         \* the order-book fan-out of a scan in progress
    pf,         \* the call of a pure helper and what it returned
    cli         \* the command-line entry points: the command under way

kvVars == <<kv, now, written, last>>

mkVars == <<lm, lastLoad>>

fobVars == <<fob>>

scanVars == <<sc>>

fanVars == <<fo>>

pureVars == <<pf>>

cliVars == <<cli>>

vars == <<kv, now, written, last, lm, lastLoad, fob, sc, fo, pf, cli>>

\* what the actions of one part leave alone
outsideKV == <<mkVars, fobVars, scanVars, fanVars, pureVars, cliVars>>

outsideMk == <<last, fobVars, scanVars, fanVars, pureVars, cliVars>>

outsideFob == <<kvVars, mkVars, scanVars, fanVars, pureVars, cliVars>>

outsideScan == <<kvVars, mkVars, fobVars, fanVars, pureVars, cliVars>>

outsideFan == <<kvVars, mkVars, fobVars, scanVars, pureVars, cliVars>>

outsidePure == <<kvVars, mkVars, fobVars, scanVars, fanVars, cliVars>>

outsideCli == <<kvVars, mkVars, fobVars, scanVars, fanVars, pureVars>>

-----------------------------------------------------------------------------
(* Bounds of the model. *)

MaxTime == 3        \* the clock runs over 0..MaxTime

-----------------------------------------------------------------------------
(* JSON values. *)

None == [t |-> "null"]

JBool(b) == [t |-> "bool", b |-> b]

JNum(n) == [t |-> "num", n |-> n]

JStr(s) == [t |-> "str", s |-> s]

JList(xs) == [t |-> "list", items |-> xs]

\* a dict keeps its insertion order: a sequence of <<key, value>> pairs
JDict(ps) == [t |-> "dict", pairs |-> ps]

\* what json.loads raises on (never produced from a payload json.dumps wrote)
JsonError == [t |-> "error"]

-----------------------------------------------------------------------------
(* JSON text, as the sequence of its tokens.  json.dumps is called with     *)
(* separators=(",", ":"), so the text has no other tokens than the ones     *)
(* here.                                                                    *)

Tok(k, s, n) == [k |-> k, s |-> s, n |-> n]

P(c) == Tok("punct", c, 0)

Lit(w) == Tok("lit", w, 0)

NumTok(n) == Tok("num", "", n)

StrTok(s) == Tok("str", s, 0)

RECURSIVE json_dumps(_)
RECURSIVE DumpItems(_)
RECURSIVE DumpPairs(_)

DumpItems(xs) ==
    IF xs = <<>> THEN <<>>
    ELSE json_dumps(Head(xs)) \o
         (IF Len(xs) > 1 THEN <<P(",")>> \o DumpItems(Tail(xs)) ELSE <<>>)

DumpPairs(ps) ==
    IF ps = <<>> THEN <<>>
    ELSE <<StrTok(Head(ps)[1]), P(":")>> \o json_dumps(Head(ps)[2]) \o
         (IF Len(ps) > 1 THEN <<P(",")>> \o DumpPairs(Tail(ps)) ELSE <<>>)

json_dumps(v) ==
    CASE v.t = "null" -> <<Lit("null")>>
      [] v.t = "bool" -> <<Lit(IF v.b THEN "true" ELSE "false")>>
      [] v.t = "num"  -> <<NumTok(v.n)>>
      [] v.t = "str"  -> <<StrTok(v.s)>>
      [] v.t = "list" -> <<P("[")>> \o DumpItems(v.items) \o <<P("]")>>
      [] v.t = "dict" -> <<P("{")>> \o DumpPairs(v.pairs) \o <<P("}")>>

\* The parser: ParseValue(toks, i) reads one value starting at token i and
\* answers [ok, val, next], next being the index after the value.
ParseFail == [ok |-> FALSE, val |-> JsonError, next |-> 0]

TokAt(toks, i) == IF i >= 1 /\ i <= Len(toks) THEN toks[i] ELSE Tok("eof", "", 0)

RECURSIVE ParseValue(_, _)
RECURSIVE ParseItems(_, _, _)
RECURSIVE ParsePairs(_, _, _)

ParseItems(toks, i, acc) ==
    LET r == ParseValue(toks, i) IN
    IF ~r.ok THEN ParseFail
    ELSE IF TokAt(toks, r.next) = P(",")
            THEN ParseItems(toks, r.next + 1, Append(acc, r.val))
         ELSE IF TokAt(toks, r.next) = P("]")
            THEN [ok |-> TRUE, val |-> JList(Append(acc, r.val)), next |-> r.next + 1]
         ELSE ParseFail

ParsePairs(toks, i, acc) ==
    IF TokAt(toks, i).k # "str" \/ TokAt(toks, i + 1) # P(":") THEN ParseFail
    ELSE LET r == ParseValue(toks, i + 2)
             pair == <<TokAt(toks, i).s, r.val>>
         IN  IF ~r.ok THEN ParseFail
             ELSE IF TokAt(toks, r.next) = P(",")
                     THEN ParsePairs(toks, r.next + 1, Append(acc, pair))
                  ELSE IF TokAt(toks, r.next) = P("}")
                     THEN [ok |-> TRUE, val |-> JDict(Append(acc, pair)), next |-> r.next + 1]
                  ELSE ParseFail

ParseValue(toks, i) ==
    LET tok == TokAt(toks, i) IN
    CASE tok = Lit("null")  -> [ok |-> TRUE, val |-> None, next |-> i + 1]
      [] tok = Lit("true")  -> [ok |-> TRUE, val |-> JBool(TRUE), next |-> i + 1]
      [] tok = Lit("false") -> [ok |-> TRUE, val |-> JBool(FALSE), next |-> i + 1]
      [] tok.k = "num"      -> [ok |-> TRUE, val |-> JNum(tok.n), next |-> i + 1]
      [] tok.k = "str"      -> [ok |-> TRUE, val |-> JStr(tok.s), next |-> i + 1]
      [] tok = P("[")       ->
            IF TokAt(toks, i + 1) = P("]")
            THEN [ok |-> TRUE, val |-> JList(<<>>), next |-> i + 2]
            ELSE ParseItems(toks, i + 1, <<>>)
      [] tok = P("{")       ->
            IF TokAt(toks, i + 1) = P("}")
            THEN [ok |-> TRUE, val |-> JDict(<<>>), next |-> i + 2]
            ELSE ParsePairs(toks, i + 1, <<>>)
      [] OTHER              -> ParseFail

json_loads(toks) ==
    LET r == ParseValue(toks, 1) IN
    IF r.ok /\ r.next = Len(toks) + 1 THEN r.val ELSE JsonError

-----------------------------------------------------------------------------
(* SqliteKVCache (cache.py). *)

\* Optional[int]: ttl_seconds=None, or a number of seconds
NoTtl == [none |-> TRUE]

Ttl(n) == [some |-> n]

MaxTtl == 2         \* the ttls a caller passes: None and 0..MaxTtl

TtlValues == {NoTtl} \cup {Ttl(n) : n \in 0..MaxTtl}

KvKeys == {"a", "markets:binance"}

\* the values the callers of SpecKV write
JsonSamples ==
    { None, JBool(FALSE), JNum(0), JStr("0"), JList(<<>>), JDict(<<>>),
      JList(<<JNum(1), JStr("a"), None>>),
      JList(<<JDict(<<<<"symbol", JStr("BTC/USDT")>>,
                      <<"tags", JList(<<JBool(TRUE)>>)>>>>)>>) }

\* CREATE TABLE IF NOT EXISTS kv_store: a fresh file has no rows
EmptyTable == {}

KvRow(key, payload, t) == [k |-> key, v |-> payload, updated_at |-> t]

\* mutation: INSERT OR IGNORE, the row of an existing key stays
set_json_ignore(table, key, value, t) ==
    IF \E r \in table : r.k = key THEN table
    ELSE table \cup {KvRow(key, json_dumps(value), t)}

\* INSERT OR REPLACE INTO kv_store(k, v, updated_at) VALUES(?, ?, ?)
set_json(table, key, value, t) ==
    {r \in table : r.k # key} \cup {KvRow(key, json_dumps(value), t)}

\* mutation: the expiry test is >= instead of >
get_json_strict(table, key, ttl, t) ==
    LET rows == {r \in table : r.k = key} IN
    IF rows = {} THEN [value |-> None, table |-> table]
    ELSE LET row == CHOOSE r \in rows : TRUE IN
         IF ttl # NoTtl /\ t - row.updated_at >= ttl.some
         THEN [value |-> None, table |-> table]
         ELSE [value |-> json_loads(row.v), table |-> table]

\* mutation: a row that reads as expired is deleted
get_json_purge(table, key, ttl, t) ==
    LET rows == {r \in table : r.k = key} IN
    IF rows = {} THEN [value |-> None, table |-> table]
    ELSE LET row == CHOOSE r \in rows : TRUE IN
         IF ttl # NoTtl /\ t - row.updated_at > ttl.some
         THEN [value |-> None, table |-> table \ rows]
         ELSE [value |-> json_loads(row.v), table |-> table]

\* SELECT v, updated_at FROM kv_store WHERE k = ? LIMIT 1; the answer is the
\* returned value and the table the call leaves behind
get_json(table, key, ttl, t) ==
    LET rows == {r \in table : r.k = key} IN
    IF rows = {} THEN [value |-> None, table |-> table]
    ELSE LET row == CHOOSE r \in rows : TRUE IN
         IF ttl # NoTtl /\ t - row.updated_at > ttl.some
         THEN [value |-> None, table |-> table]
         ELSE [value |-> json_loads(row.v), table |-> table]

Never == [never |-> TRUE]

NoOp == [op |-> "none", key |-> "", ttl |-> NoTtl, value |-> None]

KvInit ==
    /\ kv = EmptyTable
    /\ now = 0
    /\ written = [k \in KvKeys |-> Never]
    /\ last = NoOp
    /\ lm = <<>>
    /\ lastLoad = <<>>
    /\ fob = <<>>
    /\ sc = <<>>
    /\ fo = <<>>
    /\ pf = <<>>
    /\ cli = <<>>

Tick ==
    /\ now < MaxTime
    /\ now' = now + 1
    /\ last' = NoOp
    /\ UNCHANGED <<kv, written, outsideKV>>

SetJson ==
    \E key \in KvKeys, value \in JsonSamples :
        /\ kv' = set_json(kv, key, value, now)
        /\ written' = [written EXCEPT ![key] =
                          [value |-> value, at |-> now,
                           again |-> written[key] # Never]]
        /\ last' = [op |-> "set", key |-> key, ttl |-> NoTtl, value |-> value]
        /\ UNCHANGED <<now, outsideKV>>

GetJson ==
    \E key \in KvKeys, ttl \in TtlValues :
        LET r == get_json(kv, key, ttl, now) IN
        /\ kv' = r.table
        /\ last' = [op |-> "get", key |-> key, ttl |-> ttl, value |-> r.value]
        /\ UNCHANGED <<now, written, outsideKV>>

KvNext == Tick \/ SetJson \/ GetJson

SpecKV == KvInit /\ [][KvNext]_vars

-----------------------------------------------------------------------------
(* Claims about the key/value store, under SpecKV. *)

\* C1: after any sequence of set_json calls the table holds at most one row
\* per key, that row carries the timestamp of the most recent set_json of the
\* key, and get_json(key) with no ttl returns the value of that most recent
\* set_json, or None for a key never written.
C1_RoundTripUpsert ==
    /\ \A key \in KvKeys : Cardinality({r \in kv : r.k = key}) <= 1
    /\ \A r \in kv : written[r.k] # Never /\ r.updated_at = written[r.k].at
    /\ \A key \in KvKeys : written[key] # Never => \E r \in kv : r.k = key
    /\ (last.op = "get" /\ last.ttl = NoTtl) =>
          last.value = (IF written[last.key] = Never THEN None
                        ELSE written[last.key].value)

\* a read with no ttl of a key written twice, the second time later and with a
\* structured value
C1_Witness ==
    /\ last.op = "get" /\ last.ttl = NoTtl
    /\ written[last.key] # Never
    /\ written[last.key].again /\ written[last.key].at > 0
    /\ last.value.t = "list" /\ last.value.items # <<>>

\* C2: a read with a ttl of an entry written at time t returns the value when
\* now - t <= ttl and None when now - t > ttl.
C2_Expiry ==
    (last.op = "get" /\ last.ttl # NoTtl /\ written[last.key] # Never) =>
        last.value = (IF now - written[last.key].at <= last.ttl.some
                      THEN written[last.key].value ELSE None)

\* a hit at age = ttl > 0
C2_Witness ==
    /\ last.op = "get" /\ last.ttl # NoTtl /\ written[last.key] # Never
    /\ last.ttl.some > 0
    /\ now - written[last.key].at = last.ttl.some
    /\ last.value # None

\* C3: a get_json step, whatever it returns, leaves the table as it was.
C3_ReadsKeepStore == [][last'.op = "get" => kv' = kv]_vars

\* a read that found its entry expired, the row still in the table
C3_Witness ==
    /\ last.op = "get" /\ last.ttl # NoTtl /\ written[last.key] # Never
    /\ now - written[last.key].at > last.ttl.some
    /\ last.value = None /\ written[last.key].value # None
    /\ \E r \in kv : r.k = last.key /\ r.updated_at = written[last.key].at

-----------------------------------------------------------------------------
(* Part 2: MarketCache (cache.py) and load_all_markets (ccxt_client.py),   *)
(* specification SpecMarkets.  The cache file outlives a process, so the   *)
(* calls of a run of the model are the calls of every command run against  *)
(* one cache file, each with its own freshly constructed clients.          *)

MaxRaw == 1         \* markets an exchange publishes in SpecMarkets: 0..MaxRaw

MaxLoadTime == 1    \* the clock of SpecMarkets runs over 0..MaxLoadTime

ExchangeIds == {"binance", "kucoin"}

\* settings.markets_ttl_seconds of the calling process
MarketTtls == {0, 1}

\* a key a raw ccxt market dict does not have
Absent == [absent |-> TRUE]

\* d.get(key, default) for a field that holds Absent when the key is missing
Get(field, default) == IF field = Absent THEN default ELSE field

\* bool(x)
Truthy(x) ==
    CASE x.t = "null" -> FALSE
      [] x.t = "bool" -> x.b
      [] x.t = "num"  -> x.n # 0
      [] x.t = "str"  -> x.s # ""
      [] x.t = "list" -> x.items # <<>>
      [] x.t = "dict" -> x.pairs # <<>>

\* taker rates are counted in units of 0.001: the default 0.001 is 1
DefaultTaker == 1

\* exchange.fees.get("trading", {}).get("taker"): published or not
ExchangeFeesTaker(exchange_id) ==
    IF exchange_id = "binance" THEN JNum(2) ELSE Absent

\* the instruments behind exchange.markets
RawNames ==
    << [symbol |-> "BTC/USDT", base |-> "BTC", quote |-> "USDT"],
       [symbol |-> "BTC/USDC", base |-> "BTC", quote |-> "USDC"],
       [symbol |-> "ETH/BTC", base |-> "ETH", quote |-> "BTC"] >>

FlagValues == {Absent, None, JBool(TRUE), JBool(FALSE)}

RawMarket(i, spot, active, taker) ==
    [symbol |-> RawNames[i].symbol, base |-> RawNames[i].base,
     quote |-> RawNames[i].quote, spot |-> spot, active |-> active,
     taker |-> taker]

\* the taker a raw market publishes: the first instrument none, the others 0.003
RawTaker(i) == IF i = 1 THEN Absent ELSE JNum(3)

\* the <<spot, active>> fields instrument i may publish: for the first one
\* every value of spot and every value of active, for the others neither
FlagsAt(i) ==
    IF i = 1
    THEN {<<f, Absent>> : f \in FlagValues \ {JBool(TRUE)}}
         \cup {<<JBool(TRUE), f>> : f \in FlagValues \ {Absent}}
    ELSE {<<Absent, Absent>>}

\* exchange.markets.values() after exchange.load_markets(), up to max markets
RawListsUpTo(max) ==
    UNION { { [i \in 1..n |-> RawMarket(i, f[i][1], f[i][2], RawTaker(i))] :
                f \in { g \in [1..n -> FlagValues \X FlagValues] :
                            \A i \in 1..n : g[i] \in FlagsAt(i) } } :
            n \in 0..max }

RawLists == RawListsUpTo(MaxRaw)

\* the normalized Market dict of lines 66-74
Market(symbol, base, quote, taker, active) ==
    JDict(<< <<"symbol", JStr(symbol)>>, <<"base", JStr(base)>>,
             <<"quote", JStr(quote)>>, <<"taker", JNum(taker)>>,
             <<"active", JBool(active)>> >>)

\* m[key] of a dict m
DictGet(m, key) ==
    LET i == CHOOSE j \in 1..Len(m.pairs) : m.pairs[j][1] = key IN m.pairs[i][2]

\* lines 62-65: which raw markets the loop does not skip
Retained(market) ==
    /\ Truthy(Get(market.spot, JBool(TRUE)))
    /\ Get(market.active, None) # JBool(FALSE)

\* lines 66-74: the projection of one raw market
Project(market, exchange_id) ==
    Market(market.symbol, market.base, market.quote,
           IF Truthy(Get(market.taker, None)) THEN market.taker.n
           ELSE Get(ExchangeFeesTaker(exchange_id), JNum(DefaultTaker)).n,
           Truthy(Get(market.active, JBool(TRUE))))

RECURSIVE BuildMarkets(_, _)
\* lines 60-74: the list built from exchange.markets.values()
BuildMarkets(raws, exchange_id) ==
    IF raws = <<>> THEN <<>>
    ELSE (IF Retained(Head(raws)) THEN <<Project(Head(raws), exchange_id)>>
          ELSE <<>>) \o BuildMarkets(Tail(raws), exchange_id)

MarketsKey(exchange_id) == "markets:" \o exchange_id

load_cached_markets(table, exchange_id, ttl_seconds, t) ==
    get_json(table, MarketsKey(exchange_id), Ttl(ttl_seconds), t)

\* mutation: the key does not name the exchange
save_markets_shared(table, exchange_id, markets, t) ==
    set_json(table, "markets:", markets, t)

save_markets(table, exchange_id, markets, t) ==
    set_json(table, MarketsKey(exchange_id), markets, t)

\* mutation: `if cached:` in place of `if cached is not None:`
CacheHitTruthy(cached) == Truthy(cached)

\* line 50: cached is not None
CacheHit(cached) == cached # None

NoLoad ==
    [n |-> 0, ex |-> "", ttl |-> 0, outcome |-> "none", refreshes |-> 0,
     saved |-> FALSE, raw |-> <<>>, result |-> None]

Idle == [pc |-> "idle", ttl |-> 0]

MkInit ==
    /\ kv = EmptyTable
    /\ now = 0
    /\ written = [k \in {MarketsKey(e) : e \in ExchangeIds} \cup {"markets:"} |-> Never]
    /\ last = NoOp
    /\ lm = [e \in ExchangeIds |-> Idle]
    /\ lastLoad = NoLoad
    /\ fob = <<>>
    /\ sc = <<>>
    /\ fo = <<>>
    /\ pf = <<>>
    /\ cli = <<>>

MkTick ==
    /\ now < MaxLoadTime
    /\ now' = now + 1
    /\ UNCHANGED <<kv, written, lm, lastLoad, outsideMk>>

\* lines 49-58: the cache lookup; a hit returns, a miss awaits
\* exchange.load_markets()
LoadStart(e) ==
    /\ lm[e].pc = "idle"
    /\ \E ttl \in MarketTtls :
          LET r == load_cached_markets(kv, e, ttl, now) IN
          /\ kv' = r.table
          /\ IF CacheHit(r.value)
             THEN /\ lastLoad' = [n |-> 1 - lastLoad.n, ex |-> e, ttl |-> ttl,
                                  outcome |-> "hit", refreshes |-> 0,
                                  saved |-> FALSE, raw |-> <<>>,
                                  result |-> r.value]
                  /\ lm' = lm
             ELSE /\ lm' = [lm EXCEPT ![e] = [pc |-> "refreshing", ttl |-> ttl]]
                  /\ lastLoad' = lastLoad
    /\ UNCHANGED <<now, written, outsideMk>>

\* lines 58-77: exchange.load_markets() has populated exchange.markets; the
\* list is built, saved and returned
LoadFinish(e) ==
    /\ lm[e].pc = "refreshing"
    /\ \E raw \in RawLists :
          LET markets == JList(BuildMarkets(raw, e)) IN
          /\ kv' = save_markets(kv, e, markets, now)
          /\ written' = [k \in DOMAIN written |->
                           IF \E r \in kv' \ kv : r.k = k
                           THEN [value |-> markets, at |-> now,
                                 again |-> written[k] # Never]
                           ELSE written[k]]
          /\ lastLoad' = [n |-> 1 - lastLoad.n, ex |-> e, ttl |-> lm[e].ttl,
                          outcome |-> "miss", refreshes |-> 1, saved |-> TRUE,
                          raw |-> raw, result |-> markets]
    /\ lm' = [lm EXCEPT ![e] = Idle]
    /\ UNCHANGED <<now, outsideMk>>

\* line 58: exchange.load_markets() raises, and so does load_all_markets
LoadRaise(e) ==
    /\ lm[e].pc = "refreshing"
    /\ lastLoad' = [n |-> 1 - lastLoad.n, ex |-> e, ttl |-> lm[e].ttl,
                    outcome |-> "raised", refreshes |-> 1, saved |-> FALSE,
                    raw |-> <<>>, result |-> None]
    /\ lm' = [lm EXCEPT ![e] = Idle]
    /\ UNCHANGED <<kv, now, written, outsideMk>>

MkNext ==
    \/ MkTick
    \/ \E e \in ExchangeIds : LoadStart(e)
    \/ \E e \in ExchangeIds : LoadFinish(e)
    \/ \E e \in ExchangeIds : LoadRaise(e)

SpecMarkets == MkInit /\ [][MkNext]_vars

-----------------------------------------------------------------------------
(* Claims about market loading, under SpecMarkets. *)

\* the entry of exchange e is present and not older than ttl
FreshEntry(e, ttl) ==
    \E r \in kv : r.k = MarketsKey(e) /\ now - r.updated_at <= ttl

\* a load_all_markets call ends in this step
LoadEnds == lastLoad'.n # lastLoad.n

\* C4: a load_all_markets call that finds an unexpired entry for its exchange
\* (an empty list included) returns the cached list, has not refreshed the
\* client's markets, and leaves the table, timestamps included, as it was.
C4_HitReturnsCached ==
    [][(LoadEnds /\ FreshEntry(lastLoad'.ex, lastLoad'.ttl)) =>
          /\ lastLoad'.outcome = "hit"
          /\ lastLoad'.refreshes = 0
          /\ ~lastLoad'.saved
          /\ lastLoad'.result = written[MarketsKey(lastLoad'.ex)].value
          /\ kv' = kv]_vars

\* a hit on a cached empty list, one second after it was written
C4_Witness ==
    /\ lastLoad.outcome = "hit"
    /\ lastLoad.result = JList(<<>>)
    /\ written[MarketsKey(lastLoad.ex)] # Never
    /\ now > written[MarketsKey(lastLoad.ex)].at

\* C5: a call that misses refreshes once, and the list it returns is what the
\* row markets:<exchange id> then holds; the step touches no row of another
\* key; and a call that ends while the entry is within the ttl returns a list
\* equal to the one last written, without a refresh.
C5_MissRefreshesAndSaves ==
    /\ [](lastLoad.outcome = "miss" =>
            /\ lastLoad.refreshes = 1
            /\ \E r \in kv : /\ r.k = MarketsKey(lastLoad.ex)
                             /\ json_loads(r.v) = lastLoad.result)
    /\ [][(LoadEnds /\ lastLoad'.outcome = "miss") =>
            /\ \A r \in kv : r.k # MarketsKey(lastLoad'.ex) => r \in kv'
            /\ \A r \in kv' \ kv : /\ r.k = MarketsKey(lastLoad'.ex)
                                   /\ r.updated_at = now]_vars
    /\ [][(LoadEnds /\ FreshEntry(lastLoad'.ex, lastLoad'.ttl)) =>
            /\ lastLoad'.refreshes = 0
            /\ \E r \in kv : /\ r.k = MarketsKey(lastLoad'.ex)
                             /\ json_loads(r.v) = lastLoad'.result]_vars

\* a hit on a list of MaxRaw markets written a second earlier, another
\* exchange's entry beside it
C5_Witness ==
    /\ lastLoad.outcome = "hit"
    /\ Len(lastLoad.result.items) = MaxRaw
    /\ written[MarketsKey(lastLoad.ex)] # Never
    /\ now > written[MarketsKey(lastLoad.ex)].at
    /\ \E r \in kv : r.k # MarketsKey(lastLoad.ex)

\* spot, or unspecified and treated as spot
IsSpot(market) == market.spot \in {Absent, JBool(TRUE)}

\* C6: every Market of a list built on a miss comes from a raw market that is
\* spot, and has its active flag true.
C6_SpotAndActiveOnly ==
    lastLoad.outcome = "miss" =>
        \A i \in 1..Len(lastLoad.result.items) :
            LET m == lastLoad.result.items[i] IN
            /\ \E j \in 1..Len(lastLoad.raw) :
                  /\ lastLoad.raw[j].symbol = DictGet(m, "symbol").s
                  /\ IsSpot(lastLoad.raw[j])
            /\ DictGet(m, "active") = JBool(TRUE)

-----------------------------------------------------------------------------
(* Part 3: fetch_order_book_safe (ccxt_client.py), specification SpecFetch. *)
(* Each `await exchange.fetch_order_book(...)` is one step that either      *)
(* returns a book or raises an Exception carrying a text.                   *)

\* Optional[int]: a depth limit, or none given
NoLimit == [none |-> TRUE]

Limit(n) == [some |-> n]

FetchExchangeIds == {"binance", "kucoin", "kucoinfutures"}

\* limit= of the caller (settings.orderbook_limit, default 50)
RequestedLimits == {50, 150}

\* str(exc1), a sequence of characters
ErrorTexts ==
    { <<"l", "i", "m", "i", "t", " ", "5", "0">>,
      <<"l", "i", "m", "i", "t", " ", "2", "0", "0">>,
      <<"l", "i", "m", "i", "t", " ", "1", "5">>,
      <<"L", "i", "m", "i", "t", " ", "2", "0">>,
      <<"5", "0", "0", " ", "t", "i", "m", "e", "d">>,
      <<"1", "0", " ", "p", "e", "r", " ", "l", "i", "m", "i", "t">>,
      <<"1", "0", "0", "0", "m", "s", " ", "l", "i", "m", "i", "t">>,
      <<>> }

\* pat in msg
Contains(msg, pat) ==
    \E i \in 1..(Len(msg) - Len(pat) + 1) : SubSeq(msg, i, i + Len(pat) - 1) = pat

LimitWord == <<"l", "i", "m", "i", "t">>

\* ["20", "50", "100", "500", "1000"]
LimitNumbers ==
    { <<"2", "0">>, <<"5", "0">>, <<"1", "0", "0">>, <<"5", "0", "0">>,
      <<"1", "0", "0", "0">> }

\* the order book an attempt at depth lim returns
Book(symbol, lim) == [symbol |-> symbol, depth |-> lim]

\* mutation: the error text is looked at before the exchange id
candidates_text_first(exchange_id, msg) ==
    IF Contains(msg, LimitWord) /\ \E x \in LimitNumbers : Contains(msg, x)
    THEN <<Limit(20), Limit(50), Limit(100)>>
    ELSE IF exchange_id \in {"kucoin", "kucoinfutures"}
    THEN <<Limit(20), Limit(100)>>
    ELSE <<NoLimit>>

\* lines 91-97: the fallback ladder
candidates(exchange_id, msg) ==
    IF exchange_id \in {"kucoin", "kucoinfutures"}
    THEN <<Limit(20), Limit(100)>>
    ELSE IF Contains(msg, LimitWord) /\ \E x \in LimitNumbers : Contains(msg, x)
    THEN <<Limit(20), Limit(50), Limit(100)>>
    ELSE <<NoLimit>>

FobIdle ==
    [pc |-> "idle", ex |-> "", symbol |-> "", limit |-> 0, msg |-> <<>>,
     cands |-> <<>>, attempts |-> <<>>, outcomes |-> <<>>, result |-> None,
     raised |-> FALSE]

\* mutation: a failed fallback attempt is not swallowed
ladder_except_raise(f) ==
    [f EXCEPT !.outcomes = Append(@, FALSE), !.pc = "returned", !.raised = TRUE]

\* lines 98-106: a fallback attempt raised; `continue`, and after the last
\* candidate the warning and `return None`
ladder_except(f) ==
    IF Len(f.attempts) < 1 + Len(f.cands)
    THEN [f EXCEPT !.outcomes = Append(@, FALSE),
                   !.attempts = Append(@, f.cands[Len(f.attempts)])]
    ELSE [f EXCEPT !.outcomes = Append(@, FALSE), !.pc = "returned",
                   !.result = None]

FobInit ==
    /\ kv = EmptyTable
    /\ now = 0
    /\ written = <<>>
    /\ last = NoOp
    /\ lm = <<>>
    /\ lastLoad = <<>>
    /\ fob = FobIdle
    /\ sc = <<>>
    /\ fo = <<>>
    /\ pf = <<>>
    /\ cli = <<>>

\* the call: line 87 issues the attempt at the requested limit
FobCall ==
    /\ fob.pc \in {"idle", "returned"}
    /\ \E e \in FetchExchangeIds, lim \in RequestedLimits,
          sym \in {"BTC/USDT", "ETH/USDT"} :
          fob' = [FobIdle EXCEPT !.pc = "first", !.ex = e, !.symbol = sym,
                                 !.limit = lim, !.attempts = <<Limit(lim)>>]
    /\ UNCHANGED outsideFob

\* line 87: the first attempt returns a book
FobFirstOk ==
    /\ fob.pc = "first"
    /\ fob' = [fob EXCEPT !.outcomes = Append(@, TRUE), !.pc = "returned",
                          !.result = Book(fob.symbol, Limit(fob.limit))]
    /\ UNCHANGED outsideFob

\* lines 88-98: the first attempt raises; the ladder is chosen and its first
\* attempt issued
FobFirstFail ==
    /\ fob.pc = "first"
    /\ \E msg \in ErrorTexts :
          LET cs == candidates(fob.ex, msg) IN
          fob' = [fob EXCEPT !.outcomes = Append(@, FALSE), !.pc = "ladder",
                             !.msg = msg, !.cands = cs,
                             !.attempts = Append(@, cs[1])]
    /\ UNCHANGED outsideFob

\* lines 100-102: a fallback attempt returns a book
FobLadderOk ==
    /\ fob.pc = "ladder"
    /\ fob' = [fob EXCEPT !.outcomes = Append(@, TRUE), !.pc = "returned",
                          !.result = Book(fob.symbol, fob.attempts[Len(fob.attempts)])]
    /\ UNCHANGED outsideFob

\* lines 103-106: a fallback attempt raises
FobLadderFail ==
    /\ fob.pc = "ladder"
    /\ fob' = ladder_except(fob)
    /\ UNCHANGED outsideFob

FobNext == FobCall \/ FobFirstOk \/ FobFirstFail \/ FobLadderOk \/ FobLadderFail

SpecFetch == FobInit /\ [][FobNext]_vars

-----------------------------------------------------------------------------
(* Claims about fetch_order_book_safe, under SpecFetch. *)

\* the ladder the call is to follow after a first failure with text msg
ExpectedLadder(exchange_id, msg) ==
    CASE exchange_id = "kucoin" \/ exchange_id = "kucoinfutures" ->
            <<Limit(20), Limit(100)>>
      [] /\ exchange_id # "kucoin" /\ exchange_id # "kucoinfutures"
         /\ Contains(msg, LimitWord)
         /\ \/ Contains(msg, <<"2", "0">>) \/ Contains(msg, <<"5", "0">>)
            \/ Contains(msg, <<"1", "0", "0">>) \/ Contains(msg, <<"5", "0", "0">>)
            \/ Contains(msg, <<"1", "0", "0", "0">>) ->
            <<Limit(20), Limit(50), Limit(100)>>
      [] OTHER -> <<NoLimit>>

\* C7: the call never raises; what it returns is the book of its last
\* attempt, which succeeded, or None, and None only when the first attempt
\* and every attempt of the ladder have failed.
C7_NeverRaises ==
    /\ ~fob.raised
    /\ fob.pc = "returned" =>
          \/ /\ fob.result = None
             /\ \A i \in 1..Len(fob.outcomes) : ~fob.outcomes[i]
             /\ Len(fob.outcomes) = 1 + Len(ExpectedLadder(fob.ex, fob.msg))
          \/ /\ fob.result = Book(fob.symbol, fob.attempts[Len(fob.attempts)])
             /\ fob.outcomes[Len(fob.outcomes)]
             /\ Len(fob.outcomes) = Len(fob.attempts)

\* None after the two rungs of the kucoin ladder failed
C7_Witness ==
    /\ fob.pc = "returned" /\ fob.result = None
    /\ fob.ex = "kucoin"
    /\ Len(fob.outcomes) = 3

\* C8: the attempts made so far are the requested limit followed by the
\* rungs of the expected ladder, in order; no attempt follows a successful
\* one; at most 1 + length of the ladder attempts are made.
C8_AttemptOrder ==
    fob.pc # "idle" =>
        LET plan == <<Limit(fob.limit)>> \o ExpectedLadder(fob.ex, fob.msg) IN
        /\ Len(fob.attempts) <= Len(plan)
        /\ \A i \in 1..Len(fob.attempts) : fob.attempts[i] = plan[i]
        /\ Len(fob.outcomes) <= Len(fob.attempts)
        /\ \A i \in 1..Len(fob.outcomes) :
              fob.outcomes[i] => i = Len(fob.attempts) /\ fob.pc = "returned"
        /\ Len(fob.attempts) > 1 => ~fob.outcomes[1]

\* a non-kucoin exchange whose error names a limit: the third rung succeeds
C8_Witness ==
    /\ fob.pc = "returned"
    /\ fob.ex = "binance"
    /\ fob.attempts = <<Limit(150), Limit(20), Limit(50), Limit(100)>>
    /\ fob.outcomes = <<FALSE, FALSE, FALSE, TRUE>>

-----------------------------------------------------------------------------
(* Part 4: the fee/VWAP engine (fees.py).  A float is an exact rational    *)
(* [n, d] in lowest terms with d > 0: the model leaves out rounding.       *)

Abs(x) == IF x < 0 THEN -x ELSE x

RECURSIVE GCD(_, _)
GCD(a, b) == IF b = 0 THEN a ELSE GCD(b, a % b)

\* n/d in lowest terms
R(n, d) ==
    LET g == GCD(Abs(n), Abs(d))
        sg == IF d < 0 THEN -1 ELSE 1
    IN  [n |-> sg * (n \div g), d |-> sg * (d \div g)]

RInt(n) == [n |-> n, d |-> 1]

RMul(x, y) ==
    LET g1 == GCD(Abs(x.n), y.d)
        g2 == GCD(Abs(y.n), x.d)
    IN  IF x.n = 0 \/ y.n = 0 THEN RInt(0)
        ELSE [n |-> (x.n \div g1) * (y.n \div g2), d |-> (x.d \div g2) * (y.d \div g1)]

\* x / y, y # 0
RDiv(x, y) == RMul(x, IF y.n < 0 THEN [n |-> -y.d, d |-> -y.n] ELSE [n |-> y.d, d |-> y.n])

RAdd(x, y) ==
    LET g == GCD(x.d, y.d) IN R(x.n * (y.d \div g) + y.n * (x.d \div g), (x.d \div g) * y.d)

RSub(x, y) == RAdd(x, [n |-> -y.n, d |-> y.d])

RLe(x, y) ==
    LET g == GCD(x.d, y.d) IN x.n * (y.d \div g) <= y.n * (x.d \div g)

RLt(x, y) == ~RLe(y, x)

RMin(x, y) == IF RLe(x, y) THEN x ELSE y

RMax(x, y) == IF RLe(y, x) THEN x ELSE y

\* float(x) of a JSON value: a number, or an exception
FloatOk(x) == x.t \in {"num", "bool"}

Float(x) == IF x.t = "num" THEN RInt(x.n) ELSE RInt(IF x.b THEN 1 ELSE 0)

\* lines 21-29: a level the loop does not skip
LevelOk(level) ==
    /\ Len(level) >= 2
    /\ FloatOk(level[1]) /\ FloatOk(level[2])
    /\ RLt(RInt(0), Float(level[2])) /\ RLt(RInt(0), Float(level[1]))

\* Amounts of an asset, base or quote, are counted in units of 1e-12 of the
\* asset; prices and rates are plain numbers.

\* line 34: the fill tolerance 1e-12, one unit
FillTolerance == 1

\* mutation: the loop stops only when nothing remains
WithinFillToleranceZero(remaining) == RLe(remaining, RInt(0))

\* line 34: remaining <= 1e-12
WithinFillTolerance(remaining) == RLe(remaining, RInt(FillTolerance))

RECURSIVE VwapLoop(_, _, _, _)
\* lines 20-35: the loop over the levels, answering <<total_quote, filled>>
VwapLoop(levels, remaining, total_quote, filled) ==
    IF levels = <<>> THEN <<total_quote, filled>>
    ELSE IF ~LevelOk(Head(levels))
         THEN VwapLoop(Tail(levels), remaining, total_quote, filled)
    ELSE LET price == Float(Head(levels)[1])
             amount == Float(Head(levels)[2])
             take == RMin(remaining, amount)
             rest == RSub(remaining, take)
         IN  IF WithinFillTolerance(rest)
             THEN <<RAdd(total_quote, RMul(take, price)), RAdd(filled, take)>>
             ELSE VwapLoop(Tail(levels), rest,
                           RAdd(total_quote, RMul(take, price)), RAdd(filled, take))

\* compute_vwap_for_amount: None, or [avg_price, filled]
compute_vwap_for_amount(side, levels, amount_base) ==
    IF RLe(amount_base, RInt(0)) THEN None
    ELSE LET r == VwapLoop(levels, amount_base, RInt(0), RInt(0)) IN
         IF RLe(r[2], RInt(0)) THEN None
         ELSE [avg_price |-> RDiv(r[1], r[2]), filled |-> r[2]]

\* a taker rate, counted in units of 0.001, as a fraction
Rate(taker) == R(taker, 1000)

\* mutation: the base left after the withdrawal is not floored at 0
estimate_profit_unfloored(buy_price, sell_price, base_amount, taker_fee_buy, taker_fee_sell, withdraw_fee_base) ==
    LET cost_quote == RMul(base_amount, buy_price)
        cost_quote_with_fee == RMul(cost_quote, RAdd(RInt(1), taker_fee_buy))
        base_after_withdraw == RSub(base_amount, withdraw_fee_base)
        revenue_quote == RMul(base_after_withdraw, sell_price)
        revenue_quote_after_fee == RMul(revenue_quote, RSub(RInt(1), taker_fee_sell))
    IN  IF RLe(cost_quote_with_fee, RInt(0)) THEN RInt(-100)
        ELSE RMul(RDiv(RSub(revenue_quote_after_fee, cost_quote_with_fee),
                       cost_quote_with_fee), RInt(100))

\* estimate_fee_aware_profit_pct
estimate_fee_aware_profit_pct(buy_price, sell_price, base_amount, taker_fee_buy, taker_fee_sell, withdraw_fee_base) ==
    LET cost_quote == RMul(base_amount, buy_price)
        cost_quote_with_fee == RMul(cost_quote, RAdd(RInt(1), taker_fee_buy))
        base_after_withdraw == RMax(RInt(0), RSub(base_amount, withdraw_fee_base))
        revenue_quote == RMul(base_after_withdraw, sell_price)
        revenue_quote_after_fee == RMul(revenue_quote, RSub(RInt(1), taker_fee_sell))
    IN  IF RLe(cost_quote_with_fee, RInt(0)) THEN RInt(-100)
        ELSE RMul(RDiv(RSub(revenue_quote_after_fee, cost_quote_with_fee),
                       cost_quote_with_fee), RInt(100))

-----------------------------------------------------------------------------
(* Part 5: the scanner (scanner.py) and the pure helpers of ccxt_client.py *)
(* it calls, specification SpecScan.                                       *)

\* scanner.py line 116: the floor 1e-6 of the estimated base amount
EstFloor == 1000000

\* hasattr(ccxt, exchange_id)
Supported(exchange_id) == exchange_id \in ExchangeIds

\* the (a, b) a scan is called with
ScanPairs ==
    { <<"binance", "kucoin">>, <<"kucoin", "binance">>,
      <<"binance", "nosuch">>, <<"nosuch", "kucoin">> }

\* settings.preferred_quotes (the default)
PreferredQuotes == <<"USDT", "USDC">>

\* settings.min_profit_pct: the default 0.5, and 60
MinProfits == {R(1, 2), RInt(60)}

\* settings.min_notional_usd: 4 millionths of the quote asset
MinNotionals == {4 * EstFloor}

AssetCodes == {"BTC", "BUSD", "ETH", "USDC", "USDT"}

\* f"{base}/{quote}"
Fmt(base, quote) == base \o "/" \o quote

\* s.split("/") of a symbol made of two asset codes
SplitSlash(s) ==
    CHOOSE p \in AssetCodes \X AssetCodes : Fmt(p[1], p[2]) = s

\* str.upper on the codes of the model
Upper(s) ==
    CASE s = "usdt" -> "USDT"
      [] s = "usdc" -> "USDC"
      [] OTHER -> s

\* the symbols of the model in ascending order of Python's string comparison
LexOrder ==
    << "BTC/BTC", "BTC/BUSD", "BTC/ETH", "BTC/USDC", "BTC/USDT",
       "BUSD/BTC", "BUSD/BUSD", "BUSD/ETH", "BUSD/USDC", "BUSD/USDT",
       "ETH/BTC", "ETH/BUSD", "ETH/ETH", "ETH/USDC", "ETH/USDT",
       "USDC/BTC", "USDC/BUSD", "USDC/ETH", "USDC/USDC", "USDC/USDT",
       "USDT/BTC", "USDT/BUSD", "USDT/ETH", "USDT/USDC", "USDT/USDT" >>

\* m.get(key, default)
DictGetOr(m, key, default) ==
    IF \E j \in 1..Len(m.pairs) : m.pairs[j][1] = key THEN DictGet(m, key)
    ELSE default

\* {(m["base"], m["quote"]) for m in markets if m.get("active", True)}
ActivePairs(markets) ==
    { <<DictGet(markets.items[i], "base").s, DictGet(markets.items[i], "quote").s>> :
        i \in { j \in 1..Len(markets.items) :
                  Truthy(DictGetOr(markets.items[j], "active", JBool(TRUE))) } }

\* mutation: the quote is compared with the preferred quotes as written
find_common_symbols_case_sensitive(markets_a, markets_b, preferred_quotes) ==
    LET common == ActivePairs(markets_a) \cap ActivePairs(markets_b)
        symbols == {Fmt(p[1], p[2]) : p \in common}
        quotes == {preferred_quotes[i] : i \in 1..Len(preferred_quotes)}
        kept == IF preferred_quotes # <<>>
                THEN {x \in symbols : SplitSlash(x)[2] \in quotes}
                ELSE symbols
    IN  SelectSeq(LexOrder, LAMBDA x : x \in kept)

\* find_common_symbols
find_common_symbols(markets_a, markets_b, preferred_quotes) ==
    LET common == ActivePairs(markets_a) \cap ActivePairs(markets_b)
        symbols == {Fmt(p[1], p[2]) : p \in common}
        quotes == {Upper(preferred_quotes[i]) : i \in 1..Len(preferred_quotes)}
        kept == IF preferred_quotes # <<>>
                THEN {x \in symbols : Upper(SplitSlash(x)[2]) \in quotes}
                ELSE symbols
    IN  SelectSeq(LexOrder, LAMBDA x : x \in kept)

\* the clamp of get_taker_fee_for_market: 0.02, in units of 0.001
TakerCap == 20

\* mutation: no clamp from above
get_taker_fee_uncapped(exchange_id, market) ==
    LET rate == DictGetOr(market, "taker", JNum(DefaultTaker)).n IN
    Rate(IF rate < 0 THEN 0 ELSE rate)

\* get_taker_fee_for_market
get_taker_fee_for_market(exchange_id, market) ==
    LET rate == DictGetOr(market, "taker", JNum(DefaultTaker)).n IN
    Rate(IF rate < 0 THEN 0 ELSE IF rate > TakerCap THEN TakerCap ELSE rate)

\* {m["symbol"]: m for m in markets}: a later market of a symbol wins
Idx(markets) ==
    [x \in {DictGet(markets.items[i], "symbol").s : i \in 1..Len(markets.items)} |->
        LET last_i == CHOOSE i \in 1..Len(markets.items) :
                        /\ DictGet(markets.items[i], "symbol").s = x
                        /\ \A j \in (i + 1)..Len(markets.items) :
                              DictGet(markets.items[j], "symbol").s # x
        IN  markets.items[last_i]]

MaxScanRaw == 2     \* markets an exchange publishes in SpecScan: 0..MaxScanRaw

\* the lists load_all_markets can return for an exchange
MarketLists(exchange_id) ==
    {JList(BuildMarkets(raw, exchange_id)) : raw \in RawListsUpTo(MaxScanRaw)}

\* an order-book level [price, amount]
Lv(price, amount) == <<JNum(price), JNum(amount)>>

\* a level whose amount is given in millionths of the asset
LvMicro(price, amount) == Lv(price, amount * EstFloor)

OrderBook(asks, bids) == [asks |-> asks, bids |-> bids]

\* the books an exchange answers with
BookSamples ==
    { OrderBook(<<LvMicro(2, 4)>>, <<LvMicro(4, 4)>>),
      OrderBook(<<LvMicro(4, 1), LvMicro(5, 4)>>,
                <<LvMicro(3, 1), <<None, JNum(1)>>, LvMicro(2, 4)>>),
      OrderBook(<<>>, <<LvMicro(4, 4)>>),
      OrderBook(<<LvMicro(0, 1), LvMicro(2, 4)>>, <<LvMicro(6, 4)>>) }

\* what fetch_order_book_safe returns
BookChoices == BookSamples \cup {None}

\* what find_cheapest_common_network_fee returns: None, or (network, fee)
NetFeeResults ==
    { None, [network |-> "TRC20", fee |-> R(EstFloor, 4)],
      [network |-> "ERC20", fee |-> R(EstFloor, 2)] }

Opportunity(symbol, buy_exchange, sell_exchange, profit_pct, base_amount, buy_price, sell_price, network) ==
    [symbol |-> symbol, buy_exchange |-> buy_exchange,
     sell_exchange |-> sell_exchange, profit_pct |-> profit_pct,
     base_amount |-> base_amount, buy_price |-> buy_price,
     sell_price |-> sell_price, network |-> network]

ScanIdle ==
    [pc |-> "idle", a |-> "", b |-> "", min_profit_pct |-> RInt(0),
     min_notional_usd |-> 0, created |-> <<>>, closes |-> <<>>,
     raised |-> FALSE, returned |-> FALSE, result |-> <<>>,
     markets_a |-> None, markets_b |-> None, symbols |-> <<>>,
     books_a |-> <<>>, books_b |-> <<>>, i |-> 0,
     network_fee_cache |-> <<>>, lookups |-> <<>>, evals |-> <<>>,
     opportunities |-> <<>>, printed |-> FALSE, notified |-> <<>>]

\* mutation: any profit that is not a loss passes
passes_threshold_nonneg(profit, min_profit_pct) == RLe(RInt(0), profit)

\* lines 141 and 181: profit >= self.settings.min_profit_pct
passes_threshold(profit, min_profit_pct) == RLe(min_profit_pct, profit)

\* best_ask[0][0] can be read, converted and divided by
TopAskOk(levels) ==
    /\ Len(levels[1]) >= 1
    /\ FloatOk(levels[1][1])
    /\ Float(levels[1][1]).n # 0

\* lines 114-116: max(1e-6, target_quote / float(top_ask))
EstBaseAmount(target_quote, levels) ==
    RMax(RInt(EstFloor), RDiv(RInt(target_quote), Float(levels[1][1])))

\* an exception leaves the loop
Raise(st) == [st EXCEPT !.raised = TRUE]

\* mutation: the lookup is made again for every direction
WithNetworkFeeAlways(st, base, dir, net) ==
    [st EXCEPT
        !.network_fee_cache =
            [x \in DOMAIN st.network_fee_cache \cup {base} |->
                IF x = base
                THEN (IF net = None THEN [network |-> None, fee |-> RInt(0)]
                      ELSE [network |-> JStr(net.network), fee |-> net.fee])
                ELSE st.network_fee_cache[x]],
        !.lookups = Append(@, [dir |-> dir, base |-> base, net |-> net])]

\* lines 128-131 and 167-170: the memoized network-fee lookup; net is what
\* find_cheapest_common_network_fee answers if it is called
WithNetworkFee(st, base, dir, net) ==
    IF base \in DOMAIN st.network_fee_cache THEN st
    ELSE [st EXCEPT
            !.network_fee_cache =
                [x \in DOMAIN st.network_fee_cache \cup {base} |->
                    IF x = base
                    THEN (IF net = None THEN [network |-> None, fee |-> RInt(0)]
                          ELSE [network |-> JStr(net.network), fee |-> net.fee])
                    ELSE st.network_fee_cache[x]],
            !.lookups = Append(@, [dir |-> dir, base |-> base, net |-> net])]

\* lines 133-153 and 173-193: the profit of one direction and its gate
RecordDirection(st, sym, base, buy_id, sell_id, buy_vwap, sell_vwap, base_amount, taker_buy, taker_sell) ==
    LET memo == st.network_fee_cache[base]
        profit == estimate_fee_aware_profit_pct(
                      buy_vwap.avg_price, sell_vwap.avg_price, base_amount,
                      taker_buy, taker_sell, memo.fee)
        opp == Opportunity(sym, buy_id, sell_id, profit, base_amount,
                           buy_vwap.avg_price, sell_vwap.avg_price, memo.network)
    IN  [st EXCEPT
            !.evals = Append(@, [symbol |-> sym, buy_exchange |-> buy_id,
                                 sell_exchange |-> sell_id, profit_pct |-> profit,
                                 network |-> memo.network, fee |-> memo.fee]),
            !.opportunities = IF passes_threshold(profit, st.min_profit_pct)
                              THEN Append(@, opp) ELSE @]

\* mutation: the reverse direction makes its own lookup, B to A
ReverseDirectionOwnLookup(st, sym, base, ob_a, ob_b, taker_a, taker_b, net2) ==
    LET best_ask_b == ob_b.asks
        best_bid_a == ob_a.bids
        forgot == [st EXCEPT !.network_fee_cache =
                      [x \in DOMAIN st.network_fee_cache \ {base} |->
                          st.network_fee_cache[x]]]
    IN  IF best_ask_b = <<>> \/ best_bid_a = <<>> THEN st
        ELSE IF ~TopAskOk(best_ask_b) THEN Raise(st)
        ELSE LET est == EstBaseAmount(st.min_notional_usd, best_ask_b)
                 buy_vwap_b == compute_vwap_for_amount("buy", best_ask_b, est)
                 sell_vwap_a == compute_vwap_for_amount("sell", best_bid_a, est)
             IN  IF buy_vwap_b = None \/ sell_vwap_a = None THEN st
                 ELSE RecordDirection(
                          WithNetworkFee(forgot, base, "BA", net2), sym, base,
                          st.b, st.a, buy_vwap_b, sell_vwap_a,
                          RMin(buy_vwap_b.filled, sell_vwap_a.filled),
                          taker_b, taker_a)

\* lines 155-193: the reverse direction, buy on B and sell on A
ReverseDirection(st, sym, base, ob_a, ob_b, taker_a, taker_b, net2) ==
    LET best_ask_b == ob_b.asks
        best_bid_a == ob_a.bids
    IN  IF best_ask_b = <<>> \/ best_bid_a = <<>> THEN st
        ELSE IF ~TopAskOk(best_ask_b) THEN Raise(st)
        ELSE LET est == EstBaseAmount(st.min_notional_usd, best_ask_b)
                 buy_vwap_b == compute_vwap_for_amount("buy", best_ask_b, est)
                 sell_vwap_a == compute_vwap_for_amount("sell", best_bid_a, est)
             IN  IF buy_vwap_b = None \/ sell_vwap_a = None THEN st
                 ELSE RecordDirection(
                          WithNetworkFee(st, base, "BA", net2), sym, base,
                          st.b, st.a, buy_vwap_b, sell_vwap_a,
                          RMin(buy_vwap_b.filled, sell_vwap_a.filled),
                          taker_b, taker_a)

\* lines 95-193: one iteration of the loop over the symbols
scan_symbol(st, sym, net, net2) ==
    LET ob_a == st.books_a[sym]
        ob_b == st.books_b[sym]
        base == SplitSlash(sym)[1]
        quote == SplitSlash(sym)[2]
        idx_a == Idx(st.markets_a)
        idx_b == Idx(st.markets_b)
    IN  IF ob_a = None \/ ob_b = None THEN st
        ELSE IF Upper(quote) \notin
                   {Upper(PreferredQuotes[i]) : i \in 1..Len(PreferredQuotes)}
             THEN st
        ELSE IF sym \notin DOMAIN idx_a \/ sym \notin DOMAIN idx_b THEN Raise(st)
        ELSE LET taker_a == get_taker_fee_for_market(st.a, idx_a[sym])
                 taker_b == get_taker_fee_for_market(st.b, idx_b[sym])
                 best_ask == ob_a.asks
                 best_bid == ob_b.bids
             IN  IF best_ask = <<>> \/ best_bid = <<>> THEN st
                 ELSE IF ~TopAskOk(best_ask) THEN Raise(st)
                 ELSE LET est == EstBaseAmount(st.min_notional_usd, best_ask)
                          buy_vwap == compute_vwap_for_amount("buy", best_ask, est)
                          sell_vwap == compute_vwap_for_amount("sell", best_bid, est)
                      IN  IF buy_vwap = None \/ sell_vwap = None THEN st
                          ELSE IF RLe(RMin(buy_vwap.filled, sell_vwap.filled), RInt(0))
                               THEN st
                          ELSE ReverseDirection(
                                   RecordDirection(
                                       WithNetworkFee(st, base, "AB", net), sym, base,
                                       st.a, st.b, buy_vwap, sell_vwap,
                                       RMin(buy_vwap.filled, sell_vwap.filled),
                                       taker_a, taker_b),
                                   sym, base, ob_a, ob_b, taker_a, taker_b, net2)

RECURSIVE SortByProfitDesc(_)
\* line 195: opportunities.sort(key=profit_pct, reverse=True), a stable sort
SortByProfitDesc(opps) ==
    IF opps = <<>> THEN <<>>
    ELSE LET rest == SortByProfitDesc(Tail(opps))
             o == Head(opps)
             k == Cardinality({j \in 1..Len(rest) : RLt(o.profit_pct, rest[j].profit_pct)})
         IN  SubSeq(rest, 1, k) \o <<o>> \o SubSeq(rest, k + 1, Len(rest))

\* the most notifications one scan sends (line 224: opportunities[:3])
NotifyTop == 3

ScanInit ==
    /\ sc = ScanIdle
    /\ kv = EmptyTable
    /\ now = 0
    /\ written = <<>>
    /\ last = NoOp
    /\ lm = <<>>
    /\ lastLoad = <<>>
    /\ fob = <<>>
    /\ fo = <<>>
    /\ pf = <<>>
    /\ cli = <<>>

\* scan_two_exchanges(a, b) is called
ScanCall ==
    /\ sc.pc = "idle"
    /\ \E pair \in ScanPairs, m \in MinProfits, t \in MinNotionals :
          sc' = [ScanIdle EXCEPT !.pc = "createA", !.a = pair[1], !.b = pair[2],
                                 !.min_profit_pct = m, !.min_notional_usd = t]
    /\ UNCHANGED outsideScan

\* line 45: ex_a = create_exchange(a)
CreateA ==
    /\ sc.pc = "createA"
    /\ sc' = IF Supported(sc.a)
             THEN [sc EXCEPT !.pc = "createB", !.created = Append(@, "A")]
             ELSE [sc EXCEPT !.pc = "done", !.raised = TRUE]
    /\ UNCHANGED outsideScan

\* line 46: ex_b = create_exchange(b); line 70 is outside the try
CreateB ==
    /\ sc.pc = "createB"
    /\ sc' = IF Supported(sc.b)
             THEN [sc EXCEPT !.pc = "load", !.created = Append(@, "B")]
             ELSE [sc EXCEPT !.pc = "done", !.raised = TRUE]
    /\ UNCHANGED outsideScan

\* lines 72-82: both market lists, the common symbols, the early return
LoadMarkets ==
    /\ sc.pc = "load"
    /\ \E ma \in MarketLists(sc.a), mb \in MarketLists(sc.b) :
          LET symbols == find_common_symbols(ma, mb, PreferredQuotes) IN
          sc' = IF symbols = <<>>
                THEN [sc EXCEPT !.pc = "closeA", !.markets_a = ma, !.markets_b = mb,
                                !.returned = TRUE, !.result = <<>>]
                ELSE [sc EXCEPT !.pc = "fetch", !.markets_a = ma, !.markets_b = mb,
                                !.symbols = symbols]
    /\ UNCHANGED outsideScan

\* lines 71-238: a step inside the try raises (market loading, the book
\* fan-out, the network-fee lookup, the table), the finally block runs
TryBodyFail ==
    /\ sc.pc \in {"load", "fetch", "loop", "report"}
    /\ sc' = [sc EXCEPT !.pc = "closeA", !.raised = TRUE]
    /\ UNCHANGED outsideScan

\* lines 84-92: the books of every symbol on both exchanges
FetchBooks ==
    /\ sc.pc = "fetch"
    /\ \E ba \in [{sc.symbols[j] : j \in 1..Len(sc.symbols)} -> BookChoices],
          bb \in [{sc.symbols[j] : j \in 1..Len(sc.symbols)} -> BookChoices] :
          sc' = [sc EXCEPT !.pc = "loop", !.books_a = ba, !.books_b = bb, !.i = 1]
    /\ UNCHANGED outsideScan

\* lines 94-195: one symbol of the loop; after the last one, the sort
LoopStep ==
    /\ sc.pc = "loop"
    /\ \E net \in NetFeeResults, net2 \in NetFeeResults :
          LET st == scan_symbol(sc, sc.symbols[sc.i], net, net2) IN
          sc' = IF st.raised THEN [st EXCEPT !.pc = "closeA"]
                ELSE IF sc.i < Len(sc.symbols) THEN [st EXCEPT !.i = sc.i + 1]
                ELSE [st EXCEPT !.pc = "report",
                                !.opportunities = SortByProfitDesc(@)]
    /\ UNCHANGED outsideScan

\* lines 197-238: the table; with nothing to report the scan returns
Report ==
    /\ sc.pc = "report"
    /\ sc' = IF sc.opportunities = <<>>
             THEN [sc EXCEPT !.pc = "closeA", !.returned = TRUE,
                             !.result = sc.opportunities]
             ELSE [sc EXCEPT !.pc = "notify", !.printed = TRUE]
    /\ UNCHANGED outsideScan

\* mutation: every Opportunity is notified
top_all(opportunities) == opportunities

\* line 224: top = opportunities[:3]
top(opportunities) ==
    SubSeq(opportunities, 1,
           IF Len(opportunities) < NotifyTop THEN Len(opportunities) ELSE NotifyTop)

\* lines 224-238: one notification, its failure swallowed; after the last
\* one the scan returns the sorted list
NotifyOne ==
    /\ sc.pc = "notify"
    /\ \E ok \in BOOLEAN :
          LET opp == top(sc.opportunities)[Len(sc.notified) + 1]
              sent == Append(sc.notified, [opp |-> opp, ok |-> ok])
          IN  sc' = IF Len(sent) < Len(top(sc.opportunities))
                    THEN [sc EXCEPT !.notified = sent]
                    ELSE [sc EXCEPT !.notified = sent, !.pc = "closeA",
                                    !.returned = TRUE, !.result = sc.opportunities]
    /\ UNCHANGED outsideScan

\* lines 241-244: await ex_a.close(), its failure swallowed
CloseA ==
    /\ sc.pc = "closeA"
    /\ \E ok \in BOOLEAN :
          sc' = [sc EXCEPT !.pc = "closeB",
                           !.closes = Append(@, [client |-> "A", ok |-> ok])]
    /\ UNCHANGED outsideScan

\* lines 245-248: await ex_b.close(), its failure swallowed
CloseB ==
    /\ sc.pc = "closeB"
    /\ \E ok \in BOOLEAN :
          sc' = [sc EXCEPT !.pc = "done",
                           !.closes = Append(@, [client |-> "B", ok |-> ok])]
    /\ UNCHANGED outsideScan

ScanNext ==
    \/ ScanCall
    \/ CreateA
    \/ CreateB
    \/ LoadMarkets
    \/ TryBodyFail
    \/ FetchBooks
    \/ LoopStep
    \/ Report
    \/ NotifyOne
    \/ CloseA
    \/ CloseB

SpecScan == ScanInit /\ [][ScanNext]_vars

-----------------------------------------------------------------------------
(* Claims about the scanner, checked under SpecScan *)

CloseAttempts(client) ==
    Cardinality({j \in 1..Len(sc.closes) : sc.closes[j].client = client})

\* C9: when the scan has returned or raised, every client that was
\* constructed has had close attempted exactly once, whichever step failed
\* (the construction of the second client included).
C9_ClosesEveryClient ==
    sc.pc = "done" =>
        \A j \in 1..Len(sc.created) : CloseAttempts(sc.created[j]) = 1

SameDirection(o, e) ==
    /\ o.symbol = e.symbol
    /\ o.buy_exchange = e.buy_exchange
    /\ o.sell_exchange = e.sell_exchange

GatedSound(opps) ==
    \A j \in 1..Len(opps) :
        /\ RLe(sc.min_profit_pct, opps[j].profit_pct)
        /\ \E k \in 1..Len(sc.evals) :
              /\ SameDirection(opps[j], sc.evals[k])
              /\ opps[j].profit_pct = sc.evals[k].profit_pct
        /\ \A k \in 1..Len(sc.evals) :
              SameDirection(opps[j], sc.evals[k]) =>
                  ~RLt(sc.evals[k].profit_pct, sc.min_profit_pct)

\* C10: every Opportunity collected, and every one returned, has
\* profit_pct >= min_profit_pct, its profit_pct is the fee-aware profit
\* computed for its symbol and direction, and no Opportunity exists for a
\* symbol and direction whose computed profit is below the threshold.
C10_ThresholdSound ==
    /\ GatedSound(sc.opportunities)
    /\ sc.returned => GatedSound(sc.result)

\* C10: a scan returned an Opportunity and had also computed, for another
\* symbol or direction, a profit that is not a loss yet below the threshold.
C10_Witness ==
    /\ sc.returned
    /\ sc.result # <<>>
    /\ \E k \in 1..Len(sc.evals) :
          /\ RLe(RInt(0), sc.evals[k].profit_pct)
          /\ RLt(sc.evals[k].profit_pct, sc.min_profit_pct)

\* the two directions of a symbol
Directions == {"AB", "BA"}

\* the reference evaluation of one direction of a symbol from the fetched
\* books alone: whether its asks and bids allow a VWAP fill, and its
\* fee-aware profit for a given withdrawal fee
DirectionFill(sym, dir) ==
    LET buy_book == IF dir = "AB" THEN sc.books_a[sym] ELSE sc.books_b[sym]
        sell_book == IF dir = "AB" THEN sc.books_b[sym] ELSE sc.books_a[sym]
    IN  IF buy_book = None \/ sell_book = None THEN None
        ELSE IF buy_book.asks = <<>> \/ sell_book.bids = <<>> THEN None
        ELSE IF ~TopAskOk(buy_book.asks) THEN None
        ELSE LET est == EstBaseAmount(sc.min_notional_usd, buy_book.asks)
                 buy == compute_vwap_for_amount("buy", buy_book.asks, est)
                 sell == compute_vwap_for_amount("sell", sell_book.bids, est)
             IN  IF buy = None \/ sell = None THEN None
                 ELSE [buy |-> buy, sell |-> sell,
                       base_amount |-> RMin(buy.filled, sell.filled)]

DirectionProfit(sym, dir, fee) ==
    LET fill == DirectionFill(sym, dir)
        taker_a == get_taker_fee_for_market(sc.a, Idx(sc.markets_a)[sym])
        taker_b == get_taker_fee_for_market(sc.b, Idx(sc.markets_b)[sym])
    IN  estimate_fee_aware_profit_pct(
            fill.buy.avg_price, fill.sell.avg_price, fill.base_amount,
            IF dir = "AB" THEN taker_a ELSE taker_b,
            IF dir = "AB" THEN taker_b ELSE taker_a, fee)

\* the withdrawal fees the direction can be charged: the memoized one of its
\* base asset, or any the lookup can answer when none is memoized
PossibleFees(sym) ==
    IF SplitSlash(sym)[1] \in DOMAIN sc.network_fee_cache
    THEN {sc.network_fee_cache[SplitSlash(sym)[1]].fee}
    ELSE {IF net = None THEN RInt(0) ELSE net.fee : net \in NetFeeResults}

Qualifies(sym, dir) ==
    /\ DirectionFill(sym, dir) # None
    /\ \A fee \in PossibleFees(sym) :
          RLe(sc.min_profit_pct, DirectionProfit(sym, dir, fee))

Produced(opps, sym, dir) ==
    { j \in 1..Len(opps) :
        /\ opps[j].symbol = sym
        /\ opps[j].buy_exchange = (IF dir = "AB" THEN sc.a ELSE sc.b)
        /\ opps[j].sell_exchange = (IF dir = "AB" THEN sc.b ELSE sc.a) }

\* C11: when a scan returns, every common symbol and each direction whose
\* books allow a VWAP fill with a fee-aware profit >= min_profit_pct has
\* exactly one Opportunity, whether or not the other direction could be
\* evaluated.
C11_EveryQualifyingDirection ==
    (sc.returned /\ sc.symbols # <<>>) =>
        \A j \in 1..Len(sc.symbols), dir \in Directions :
            Qualifies(sc.symbols[j], dir) =>
                Cardinality(Produced(sc.result, sc.symbols[j], dir)) = 1

-----------------------------------------------------------------------------
(* Part 6: the order-book fan-out of a scan (scanner.py lines 57-67 and    *)
(* 84-86) under the AsyncLimiter of utils.py, followed by the loop and the *)
(* sort; specification SpecFanout.  Each side has its own limiter and its  *)
(* own results dict; a dict keeps its keys in insertion order, so results  *)
(* is a sequence of <<symbol, book>> in the order the fetches completed.   *)

MaxSymbols == 2         \* symbols of a fan-out: 0..MaxSymbols

MaxConcurrency == 2     \* settings.concurrency: 1..MaxConcurrency

Sides == {"A", "B"}

\* the symbols a fan-out is asked for: the first n of these, sorted
FanPool == [i \in 1..Len(RawNames) |-> RawNames[i].symbol]

FanSymbols(n) ==
    SelectSeq(LexOrder, LAMBDA x : \E i \in 1..n : FanPool[i] = x)

\* the market lists of the scan the fan-out belongs to: every instrument
\* of the pool, the same taker on each
FanMarkets(exchange_id) ==
    JList(BuildMarkets([i \in 1..Len(FanPool) |->
                           RawMarket(i, Absent, Absent, JNum(3))], exchange_id))

\* what a fetch_order_book_safe call of a worker returns on side x
FanBooks(x) ==
    { None, OrderBook(<<LvMicro(2, 4)>>, <<LvMicro(IF x = "A" THEN 4 ELSE 5, 4)>>) }

\* what the network-fee lookups of the scan answer, A to B and B to A
FanNets ==
    { <<None, None>>,
      <<[network |-> "TRC20", fee |-> R(EstFloor, 4)],
        [network |-> "ERC20", fee |-> R(EstFloor, 2)]>> }

\* mutation: a failed fetch leaves no entry
DictSetUnlessNone(pairs, key, value) ==
    IF value = None THEN pairs ELSE Append(pairs, <<key, value>>)

\* results[sym] = ob
DictSet(pairs, key, value) ==
    IF \E j \in 1..Len(pairs) : pairs[j][1] = key
    THEN [j \in 1..Len(pairs) |->
            IF pairs[j][1] = key THEN <<key, value>> ELSE pairs[j]]
    ELSE Append(pairs, <<key, value>>)

\* books.get(sym)
DictGetBook(pairs, key) ==
    IF \E j \in 1..Len(pairs) : pairs[j][1] = key
    THEN pairs[CHOOSE j \in 1..Len(pairs) : pairs[j][1] = key][2]
    ELSE None

\* mutation: the semaphore hands out a permit it does not have
sem_acquire_unchecked(value) == TRUE

\* asyncio.Semaphore.acquire returns without waiting iff a permit is free
sem_can_acquire(value) == value > 0

\* mutation: the permit is given back only when the body completed
aexit_release_on_success(value, failed) == IF failed THEN value ELSE value + 1

\* AsyncLimiter.__aexit__: self._semaphore.release(), whatever the body did
aexit_release(value, failed) == value + 1

\* mutation: `for sym in books_a` in place of `for sym in symbols`
loop_order_by_completion(symbols, results_a) ==
    [j \in 1..Len(results_a) |-> results_a[j][1]]

\* line 94: for sym in symbols
loop_order(symbols, results_a) == symbols

RECURSIVE RunLoop(_, _, _, _, _)
\* lines 94-193: the loop over the symbols in the given order
RunLoop(st, order, k, net, net2) ==
    IF k > Len(order) \/ st.raised THEN st
    ELSE RunLoop(scan_symbol(st, order[k], net, net2), order, k + 1, net, net2)

\* lines 88-195 for the books of two result dicts
ScanBooks(symbols, results_a, results_b, order, net, net2) ==
    LET syms == {symbols[j] : j \in 1..Len(symbols)}
        st == [ScanIdle EXCEPT
                 !.a = "binance", !.b = "kucoin",
                 !.min_profit_pct = R(1, 2), !.min_notional_usd = 4 * EstFloor,
                 !.markets_a = FanMarkets("binance"),
                 !.markets_b = FanMarkets("kucoin"),
                 !.symbols = symbols,
                 !.books_a = [x \in syms |-> DictGetBook(results_a, x)],
                 !.books_b = [x \in syms |-> DictGetBook(results_b, x)]]
    IN  SortByProfitDesc(RunLoop(st, order, 1, net, net2).opportunities)

FanIdle ==
    [pc |-> "idle", symbols |-> <<>>, concurrency |-> 0, nets |-> <<None, None>>,
     w |-> [x \in Sides |-> <<>>], value |-> [x \in Sides |-> 0],
     results |-> [x \in Sides |-> <<>>], got |-> [x \in Sides |-> <<>>],
     side |-> [x \in Sides |-> "none"], out |-> <<>>]

FanInit ==
    /\ fo = FanIdle
    /\ kv = EmptyTable
    /\ now = 0
    /\ written = <<>>
    /\ last = NoOp
    /\ lm = <<>>
    /\ lastLoad = <<>>
    /\ fob = <<>>
    /\ sc = <<>>
    /\ pf = <<>>
    /\ cli = <<>>

\* lines 84-85 and 58-66: both fan-outs start, each with a limiter of its
\* own and one worker per symbol
FanCall ==
    /\ fo.pc = "idle"
    /\ \E n \in 1..MaxSymbols, c \in 1..MaxConcurrency, nets \in FanNets :
          fo' = [FanIdle EXCEPT
                   !.pc = "fanout", !.symbols = FanSymbols(n),
                   !.concurrency = c, !.nets = nets,
                   !.w = [x \in Sides |-> [i \in 1..n |-> "waiting"]],
                   !.value = [x \in Sides |-> c],
                   !.got = [x \in Sides |-> [i \in 1..n |-> Absent]],
                   !.side = [x \in Sides |-> "running"]]
    /\ UNCHANGED outsideFan

\* utils.py lines 27-28: __aenter__ of worker i on side x gets its permit
Acquire(x, i) ==
    /\ fo.pc # "idle"
    /\ i \in DOMAIN fo.w[x]
    /\ fo.w[x][i] = "waiting"
    /\ sem_can_acquire(fo.value[x])
    /\ fo' = [fo EXCEPT !.w[x][i] = "fetching", !.value[x] = @ - 1]
    /\ UNCHANGED outsideFan

\* the workers of side x that have not ended, apart from worker i
OthersRunning(x, i) ==
    \E j \in DOMAIN fo.w[x] : j # i /\ fo.w[x][j] \in {"waiting", "fetching"}

\* lines 63-64 and utils.py lines 30-31: the fetch of worker i returns a book
\* or None, the worker stores it and leaves the limiter; gather returns once
\* the last worker is done
FetchReturns(x, i) ==
    /\ fo.pc # "idle"
    /\ i \in DOMAIN fo.w[x]
    /\ fo.w[x][i] = "fetching"
    /\ \E ob \in FanBooks(x) :
          fo' = [fo EXCEPT
                   !.w[x][i] = "done",
                   !.got[x][i] = ob,
                   !.results[x] = DictSet(@, fo.symbols[i], ob),
                   !.value[x] = aexit_release(@, FALSE),
                   !.side[x] = IF @ = "running" /\ ~OthersRunning(x, i)
                               THEN "returned" ELSE @]
    /\ UNCHANGED outsideFan

\* the body of worker i is left by an exception that `except Exception`
\* does not catch (a cancellation): __aexit__ still runs, gather raises
WorkerAborts(x, i) ==
    /\ fo.pc # "idle"
    /\ i \in DOMAIN fo.w[x]
    /\ fo.w[x][i] = "fetching"
    /\ fo' = [fo EXCEPT
                !.w[x][i] = "aborted",
                !.value[x] = aexit_release(@, TRUE),
                !.side[x] = IF @ = "running" THEN "raised" ELSE @]
    /\ UNCHANGED outsideFan

\* lines 86-195: both dicts are there; the loop and the sort
FanLoop ==
    /\ fo.pc = "fanout"
    /\ \A x \in Sides : fo.side[x] = "returned"
    /\ fo' = [fo EXCEPT
                !.pc = "sorted",
                !.out = ScanBooks(fo.symbols, fo.results["A"], fo.results["B"],
                                  loop_order(fo.symbols, fo.results["A"]),
                                  fo.nets[1], fo.nets[2])]
    /\ UNCHANGED outsideFan

\* line 86: a fan-out raised, and so does the scan
FanRaise ==
    /\ fo.pc = "fanout"
    /\ \E x \in Sides : fo.side[x] = "raised"
    /\ fo' = [fo EXCEPT !.pc = "raised"]
    /\ UNCHANGED outsideFan

FanNext ==
    \/ FanCall
    \/ \E x \in Sides, i \in 1..MaxSymbols : Acquire(x, i)
    \/ \E x \in Sides, i \in 1..MaxSymbols : FetchReturns(x, i)
    \/ \E x \in Sides, i \in 1..MaxSymbols : WorkerAborts(x, i)
    \/ FanLoop
    \/ FanRaise

SpecFanout == FanInit /\ [][FanNext]_vars

\* a step of some worker
WorkerStep ==
    \E x \in Sides, i \in 1..MaxSymbols :
        Acquire(x, i) \/ FetchReturns(x, i) \/ WorkerAborts(x, i)

\* the event loop runs a worker that can run, and a fetch in flight
\* eventually returns or fails
SpecFanoutFair == SpecFanout /\ WF_vars(WorkerStep)

-----------------------------------------------------------------------------
(* Claims about the fan-out, the limiter and the order of the output *)

\* the dict a side would hold had its fetches completed in symbol order
InSymbolOrder(x) ==
    [i \in 1..Len(fo.symbols) |-> <<fo.symbols[i], fo.got[x][i]>>]

\* C12: the list the scan reports is in descending order of profit_pct, and
\* it is the list obtained from the same books had the fetches of both
\* sides completed in symbol order: completion order changes neither its
\* content nor its order.
C12_SortedAndOrderIndependent ==
    fo.pc = "sorted" =>
        /\ \A i \in 1..Len(fo.out), j \in 1..Len(fo.out) :
              i < j => RLe(fo.out[j].profit_pct, fo.out[i].profit_pct)
        /\ fo.out = ScanBooks(fo.symbols, InSymbolOrder("A"), InSymbolOrder("B"),
                              fo.symbols, fo.nets[1], fo.nets[2])

\* C12: the fetches of side A completed out of symbol order, and the output
\* holds two Opportunities of different symbols with equal profit
C12_Witness ==
    /\ fo.pc = "sorted"
    /\ fo.results["A"] # InSymbolOrder("A")
    /\ \E i \in 1..Len(fo.out), j \in 1..Len(fo.out) :
          /\ fo.out[i].symbol # fo.out[j].symbol
          /\ fo.out[i].profit_pct = fo.out[j].profit_pct

InFlight(x) == {i \in DOMAIN fo.w[x] : fo.w[x][i] = "fetching"}

\* C13: on each side the number of order-book fetches in flight is at most
\* the configured concurrency, in every reachable state.
C13_ConcurrencyBound ==
    \A x \in Sides : Cardinality(InFlight(x)) <= fo.concurrency

\* C13: more symbols than permits; the limit is reached on a side while a
\* worker waits
C13_Witness ==
    \E x \in Sides :
        /\ Len(fo.symbols) > fo.concurrency
        /\ Cardinality(InFlight(x)) = fo.concurrency
        /\ \E i \in DOMAIN fo.w[x] : fo.w[x][i] = "waiting"

\* C14: free permits + holders = the configured size at any time, and once
\* every worker of a side has ended all its permits are free, whether the
\* bodies completed or failed.
C14_NoPermitLeak ==
    \A x \in Sides :
        /\ fo.value[x] + Cardinality(InFlight(x)) = fo.concurrency
        /\ (\A i \in DOMAIN fo.w[x] : fo.w[x][i] \in {"done", "aborted"})
              => fo.value[x] = fo.concurrency

\* C14: every worker of a side has ended, one of them by a failing body,
\* after a worker had to wait for a permit
C14_Witness ==
    \E x \in Sides :
        /\ fo.pc # "idle"
        /\ Len(fo.symbols) > fo.concurrency
        /\ \A i \in DOMAIN fo.w[x] : fo.w[x][i] \in {"done", "aborted"}
        /\ \E i \in DOMAIN fo.w[x] : fo.w[x][i] = "aborted"
        /\ \E i \in DOMAIN fo.w[x] : fo.w[x][i] = "done"

SideEnded(x) == fo.side[x] \in {"returned", "raised"}

\* the result of a side has exactly one entry per requested symbol, holding
\* what that symbol's own fetch returned (None for a failed fetch)
CompleteResult(x) ==
    /\ Len(fo.results[x]) = Len(fo.symbols)
    /\ \A i \in 1..Len(fo.symbols) :
          /\ \E j \in 1..Len(fo.results[x]) : fo.results[x][j][1] = fo.symbols[i]
          /\ DictGetBook(fo.results[x], fo.symbols[i]) = fo.got[x][i]

\* C15: a fan-out that has started eventually ends on each side; it raises
\* only if a worker body was left by an exception; and when it returns, its
\* result has an entry for every requested symbol, None where the fetch
\* failed and the fetched book elsewhere.
C15_FanoutCompletes ==
    /\ (fo.pc = "fanout") ~> (\A x \in Sides : SideEnded(x))
    /\ [](\A x \in Sides :
            /\ fo.side[x] = "raised" =>
                  \E i \in DOMAIN fo.w[x] : fo.w[x][i] = "aborted"
            /\ fo.side[x] = "returned" => CompleteResult(x))

\* C15: a side returned with None for one symbol and a book for another
\* while a worker had to wait for a permit
C15_Witness ==
    \E x \in Sides :
        /\ fo.side[x] = "returned"
        /\ Len(fo.symbols) > fo.concurrency
        /\ \E i \in DOMAIN fo.got[x] : fo.got[x][i] = None
        /\ \E i \in DOMAIN fo.got[x] : fo.got[x][i] \notin {None, Absent}

-----------------------------------------------------------------------------
(* Claims about the network-fee memo and the notifications, under SpecScan *)

LookupsOf(base) == {j \in 1..Len(sc.lookups) : sc.lookups[j].base = base}

\* the (network, fee) the scan keeps for what a lookup answered
Memoized(net) ==
    IF net = None THEN [network |-> None, fee |-> RInt(0)]
    ELSE [network |-> JStr(net.network), fee |-> net.fee]

\* C16: within a scan find_cheapest_common_network_fee is invoked at most
\* once per base asset, and every profit computed for a symbol of that base
\* asset, in either direction, uses the network and the fee that invocation
\* answered; so does every Opportunity.
C16_FeeLookupOncePerBase ==
    /\ \A base \in AssetCodes : Cardinality(LookupsOf(base)) <= 1
    /\ \A k \in 1..Len(sc.evals) :
          \E j \in LookupsOf(SplitSlash(sc.evals[k].symbol)[1]) :
              /\ sc.evals[k].network = Memoized(sc.lookups[j].net).network
              /\ sc.evals[k].fee = Memoized(sc.lookups[j].net).fee
    /\ \A k \in 1..Len(sc.opportunities) :
          \E j \in LookupsOf(SplitSlash(sc.opportunities[k].symbol)[1]) :
              sc.opportunities[k].network = Memoized(sc.lookups[j].net).network

\* C16: two symbols of one base asset, both directions of each evaluated,
\* after the one lookup answered a network with a fee
C16_Witness ==
    /\ Len(sc.evals) = 4
    /\ \A k \in 1..Len(sc.evals) : SplitSlash(sc.evals[k].symbol)[1] = "BTC"
    /\ sc.evals[1].symbol # sc.evals[4].symbol
    /\ sc.lookups[1].net # None

\* C27: the lookup B to A is never made: every lookup of a scan is the one
\* A to B, made before the reverse direction of the symbol is evaluated, and
\* every profit of a reverse direction is computed with the network and the
\* fee that lookup answered (fee 0 and no network when it answered none).
C27_ReverseLookupNeverMade ==
    /\ \A j \in 1..Len(sc.lookups) : sc.lookups[j].dir = "AB"
    /\ \A k \in 1..Len(sc.evals) :
          sc.evals[k].buy_exchange = sc.b =>
              \E j \in 1..Len(sc.lookups) :
                  /\ sc.lookups[j].dir = "AB"
                  /\ sc.lookups[j].base = SplitSlash(sc.evals[k].symbol)[1]
                  /\ sc.evals[k].network =
                        (IF sc.lookups[j].net = None THEN None
                         ELSE JStr(sc.lookups[j].net.network))
                  /\ sc.evals[k].fee =
                        (IF sc.lookups[j].net = None THEN RInt(0)
                         ELSE sc.lookups[j].net.fee)

\* C27: a reverse-direction Opportunity carrying the network of the lookup
\* A to B
C27_Witness ==
    /\ sc.returned
    /\ \E k \in 1..Len(sc.result) :
          /\ sc.result[k].buy_exchange = sc.b
          /\ sc.result[k].sell_exchange = sc.a
          /\ sc.result[k].network # None
          /\ \E j \in 1..Len(sc.lookups) :
                /\ sc.lookups[j].dir = "AB"
                /\ sc.lookups[j].net # None
                /\ sc.result[k].network = JStr(sc.lookups[j].net.network)

\* the notifications a finished scan owes: one per entry of the first
\* min(3, n) of its list, in the order of the list
MinOf(x, y) == IF x < y THEN x ELSE y

\* C17: notifications are attempted only after the table is printed and
\* only for the leading entries of the profit-descending list, in order and
\* at most three; a scan that returns with n >= 1 Opportunities has
\* attempted exactly min(3, n) of them whatever their outcomes, and returns
\* that same list; with no Opportunity it attempts none.
C17_NotifyTopThree ==
    /\ sc.notified # <<>> => sc.printed
    /\ Len(sc.notified) <= MinOf(3, Len(sc.opportunities))
    /\ \A k \in 1..Len(sc.notified) :
          /\ sc.notified[k].opp = sc.opportunities[k]
          /\ \A j \in 1..Len(sc.opportunities) :
                k < j => RLe(sc.opportunities[j].profit_pct, sc.notified[k].opp.profit_pct)
    /\ sc.returned =>
          /\ Len(sc.notified) = MinOf(3, Len(sc.result))
          /\ sc.symbols # <<>> => sc.result = SortByProfitDesc(sc.opportunities)

\* C17: a scan returned four Opportunities after three notifications, the
\* first of which failed
C17_Witness ==
    /\ sc.returned
    /\ Len(sc.result) = 4
    /\ Len(sc.notified) = 3
    /\ ~sc.notified[1].ok
    /\ sc.notified[3].ok

-----------------------------------------------------------------------------
(* Part 7: the pure helpers, each called on inputs drawn from bounded sets; *)
(* specification SpecPure.                                                   *)

MaxMarkets == 2     \* markets in a list given to find_common_symbols: 0..MaxMarkets

\* a normalized Market dict; the key "active" may be missing
PureMarket(base, quote, active) ==
    JDict(<< <<"symbol", JStr(Fmt(base, quote))>>, <<"base", JStr(base)>>,
             <<"quote", JStr(quote)>> >>
          \o (IF active = Absent THEN <<>> ELSE << <<"active", active>> >>))

MarketPool ==
    { PureMarket("BTC", "USDT", Absent), PureMarket("ETH", "USDT", JBool(TRUE)),
      PureMarket("BTC", "BUSD", Absent), PureMarket("BTC", "USDT", JBool(FALSE)),
      PureMarket("ETH", "USDT", None) }

\* the lists of markets, duplicates included
PureMarketLists(max) ==
    {JList(l) : l \in UNION {[1..n -> MarketPool] : n \in 0..max}}

\* preferred_quotes: none, or a tuple of codes in either case
PreferredChoices == { <<>>, <<"USDT">>, <<"usdt">>, <<"USDT", "USDC">> }

MaxNetworks == 2    \* networks a currency entry lists: 0..MaxNetworks

NetworkNames == <<"TRC20", "ERC20", "BEP20", "SOL">>

\* one network's entry in a currency's "networks"
NetDataSamples ==
    { JDict(<< <<"withdrawFee", JNum(1)>> >>),
      JDict(<< <<"withdrawFee", JNum(3)>>, <<"fee", JNum(0)>> >>),
      JDict(<< <<"withdrawFee", None>>, <<"fee", JNum(2)>> >>),
      JDict(<< <<"withdrawFee", None>>, <<"fee", None>> >>),
      JDict(<< <<"withdrawFee", JStr("n/a")>>, <<"fee", JNum(1)>> >>),
      JNum(5) }

\* a currency's "networks": a dict over the first n network names
NetworkDicts(max) ==
    { JDict([i \in 1..Len(f) |-> <<NetworkNames[i], f[i]>>]) :
        f \in UNION {[1..n -> NetDataSamples] : n \in 0..max} }

\* what exchange.fetch_currencies() does: raises, or returns None or a dict
FetchRaises == [raises |-> TRUE]

FetchReturnsValue(value) == [raises |-> FALSE, value |-> value]

FetchCurrenciesOutcomes(max) ==
    { FetchRaises, FetchReturnsValue(None), FetchReturnsValue(JDict(<<>>)),
      FetchReturnsValue(JDict(<< <<"ETH", JDict(<< <<"networks",
          JDict(<< <<"TRC20", JDict(<< <<"withdrawFee", JNum(1)>> >>)>> >>)>> >>)>> >>)),
      FetchReturnsValue(JDict(<< <<"BTC", JDict(<< <<"id", JStr("btc")>> >>)>> >>)),
      FetchReturnsValue(JDict(<< <<"BTC", JDict(<< <<"networks", None>> >>)>> >>)) }
    \cup { FetchReturnsValue(JDict(<< <<"BTC", JDict(<< <<"networks", nd>> >>)>> >>)) :
             nd \in NetworkDicts(max) }

\* lines 149-153: the fee of one networks entry, None when it has none
NetDataFee(net_data) ==
    IF net_data.t = "dict"
    THEN LET fee == DictGetOr(net_data, "withdrawFee", None)
         IN  IF fee = None THEN DictGetOr(net_data, "fee", None) ELSE fee
    ELSE None

\* lines 145-160: network name -> fee, for the networks of one currency
\* whose fee is there and float() takes it
NetworkFeesOf(data) ==
    LET got == DictGetOr(data, "networks", None)
        networks == IF Truthy(got) THEN got.pairs ELSE <<>>
        kept == { i \in 1..Len(networks) :
                    /\ NetDataFee(networks[i][2]) # None
                    /\ FloatOk(NetDataFee(networks[i][2])) }
    IN  [ net_name \in {networks[i][1] : i \in kept} |->
            Float(NetDataFee(DictGet([pairs |-> networks], net_name))) ]

\* _extract_currency_network_fees: currency code -> its network fees, for
\* the currencies that have any; {} when fetch_currencies raises
extract_currency_network_fees(fetched) ==
    IF fetched.raises THEN <<>>
    ELSE LET currencies == IF Truthy(fetched.value) THEN fetched.value.pairs ELSE <<>>
             codes == { currencies[i][1] : i \in
                          { j \in 1..Len(currencies) :
                              DOMAIN NetworkFeesOf(currencies[j][2]) # {} } }
         IN  [ code \in codes |-> NetworkFeesOf(DictGet([pairs |-> currencies], code)) ]

\* dict.get(key) or {}
FeesGet(fees, code) == IF code \in DOMAIN fees THEN fees[code] ELSE <<>>

\* mutation: the network with the lowest fee on exchange A
find_cheapest_by_fee_a(fetched_a, fetched_b, currency_code) ==
    LET a == FeesGet(extract_currency_network_fees(fetched_a), currency_code)
        b == FeesGet(extract_currency_network_fees(fetched_b), currency_code)
        common_networks == DOMAIN a \cap DOMAIN b
    IN  IF DOMAIN a = {} \/ DOMAIN b = {} THEN {None}
        ELSE IF common_networks = {} THEN {None}
        ELSE { [network |-> n, fee |-> a[n]] : n \in
                 { m \in common_networks :
                     \A o \in common_networks : RLe(a[m], a[o]) } }

\* find_cheapest_common_network_fee: everything the call can return.  min()
\* walks a set of strings, so among networks of equal total fee the one it
\* returns is not determined.
find_cheapest_common_network_fee(fetched_a, fetched_b, currency_code) ==
    LET a == FeesGet(extract_currency_network_fees(fetched_a), currency_code)
        b == FeesGet(extract_currency_network_fees(fetched_b), currency_code)
        common_networks == DOMAIN a \cap DOMAIN b
    IN  IF DOMAIN a = {} \/ DOMAIN b = {} THEN {None}
        ELSE IF common_networks = {} THEN {None}
        ELSE { [network |-> n, fee |-> a[n]] : n \in
                 { m \in common_networks :
                     \A o \in common_networks :
                         RLe(RAdd(a[m], b[m]), RAdd(a[o], b[o])) } }

MaxLevels == 2      \* levels of the book side given to compute_vwap_for_amount

\* the levels of a book side: usable, of no amount, of no price, with a
\* field float() refuses, with one field only; amounts in units of 1e-12
LevelPool ==
    { Lv(100, 3), Lv(101, 2), Lv(99, 1), Lv(100, 0), Lv(0, 2),
      <<None, JNum(1)>>, <<JNum(100)>> }

LevelLists(max) == UNION {[1..n -> LevelPool] : n \in 0..max}

\* the requested amounts, in units of 1e-12
AmountChoices == { RInt(-1), RInt(0), R(1, 2), RInt(1), RInt(2), RInt(4), RInt(5), RInt(6) }

\* the arguments of a call that has not run yet
FindCommonSymbolsArgs(max) ==
    { [fn |-> "find_common_symbols", called |-> FALSE, markets_a |-> ma,
       markets_b |-> mb, preferred_quotes |-> pq, result |-> <<>>] :
      ma \in PureMarketLists(max), mb \in PureMarketLists(max), pq \in PreferredChoices }

FindCheapestArgs(max) ==
    { [fn |-> "find_cheapest_common_network_fee", called |-> FALSE,
       fetched_a |-> fa, fetched_b |-> fb, currency_code |-> "BTC", result |-> None] :
      fa \in FetchCurrenciesOutcomes(max), fb \in FetchCurrenciesOutcomes(max) }

ComputeVwapArgs(max) ==
    { [fn |-> "compute_vwap_for_amount", called |-> FALSE, side |-> sd,
       levels |-> lv, amount_base |-> am, result |-> None] :
      sd \in {"buy", "sell"}, lv \in LevelLists(max), am \in AmountChoices }

\* prices, amounts, taker rates and withdrawal fees of a profit estimate
ProfitPrices == { RInt(0), RInt(100), RInt(110) }

ProfitAmounts == { RInt(0), RInt(1), RInt(2) }

ProfitRates == { RInt(-1), RInt(0), Rate(1), Rate(TakerCap) }

ProfitWithdrawFees == { RInt(0), R(1, 2), RInt(1), RInt(3) }

EstimateProfitArgs ==
    { [fn |-> "estimate_fee_aware_profit_pct", called |-> FALSE, buy_price |-> bp,
       sell_price |-> sp, base_amount |-> ba, taker_fee_buy |-> tb,
       taker_fee_sell |-> ts, withdraw_fee_base |-> wf, result |-> None] :
      bp \in ProfitPrices, sp \in ProfitPrices \ {RInt(0)}, ba \in ProfitAmounts,
      tb \in ProfitRates, ts \in ProfitRates \ {RInt(-1)}, wf \in ProfitWithdrawFees }

\* the taker rates a market publishes, in units of 0.001
TakerSamples == { -10, 0, 1, 2, 19, 20, 21, 50 }

\* a Market with its taker field, or without it
TakerMarket(taker) ==
    JDict(<< <<"symbol", JStr("BTC/USDT")>>, <<"base", JStr("BTC")>>,
             <<"quote", JStr("USDT")>> >>
          \o (IF taker = Absent THEN <<>> ELSE << <<"taker", taker>> >>))

GetTakerFeeArgs ==
    { [fn |-> "get_taker_fee_for_market", called |-> FALSE, exchange_id |-> e,
       market |-> TakerMarket(t), result |-> None] :
      e \in ExchangeIds, t \in {Absent} \cup {JNum(n) : n \in TakerSamples} }

\* instruments behind exchange.markets; the second one's symbol is not
\* base + "/" + quote
IndexedInstruments ==
    << [symbol |-> "BTC/USDT", base |-> "BTC", quote |-> "USDT"],
       [symbol |-> "BTC/USDT:USDT", base |-> "BTC", quote |-> "USDT"],
       [symbol |-> "ETH/USDT", base |-> "ETH", quote |-> "USDT"] >>

\* exchange.markets.values(): any of the instruments, in their order, each
\* without an active field or with active False
IndexedRawLists ==
    { SelectSeq([i \in 1..Len(IndexedInstruments) |->
                    [symbol |-> IndexedInstruments[i].symbol,
                     base |-> IndexedInstruments[i].base,
                     quote |-> IndexedInstruments[i].quote, spot |-> Absent,
                     active |-> IF c[i] = "inactive" THEN JBool(FALSE) ELSE Absent,
                     taker |-> Absent, listed |-> c[i] # "none"]],
                LAMBDA m : m.listed) :
      c \in [1..Len(IndexedInstruments) -> {"none", "listed", "inactive"}] }

LoadCommonSymbolsArgs ==
    { [fn |-> "load_common_symbols", called |-> FALSE, raw_a |-> ra, raw_b |-> rb,
       result |-> None] :
      ra \in IndexedRawLists, rb \in IndexedRawLists }

PureInit ==
    /\ \/ pf \in FindCommonSymbolsArgs(MaxMarkets)
       \/ pf \in FindCheapestArgs(MaxNetworks)
       \/ pf \in ComputeVwapArgs(MaxLevels)
       \/ pf \in EstimateProfitArgs
       \/ pf \in GetTakerFeeArgs
       \/ pf \in LoadCommonSymbolsArgs
    /\ kv = EmptyTable
    /\ now = 0
    /\ written = <<>>
    /\ last = NoOp
    /\ lm = <<>>
    /\ lastLoad = <<>>
    /\ fob = <<>>
    /\ sc = <<>>
    /\ fo = <<>>
    /\ cli = <<>>

\* a call find_common_symbols(markets_a, markets_b, preferred_quotes)
CallFindCommonSymbols ==
    /\ pf.fn = "find_common_symbols"
    /\ ~pf.called
    /\ pf' = [pf EXCEPT !.called = TRUE,
                        !.result = find_common_symbols(pf.markets_a, pf.markets_b,
                                                       pf.preferred_quotes)]
    /\ UNCHANGED outsidePure

\* a call find_cheapest_common_network_fee(exchange_a, exchange_b, code)
CallFindCheapest ==
    /\ pf.fn = "find_cheapest_common_network_fee"
    /\ ~pf.called
    /\ \E r \in find_cheapest_common_network_fee(pf.fetched_a, pf.fetched_b,
                                                  pf.currency_code) :
          pf' = [pf EXCEPT !.called = TRUE, !.result = r]
    /\ UNCHANGED outsidePure

\* a call compute_vwap_for_amount(side, levels, amount_base)
CallComputeVwap ==
    /\ pf.fn = "compute_vwap_for_amount"
    /\ ~pf.called
    /\ pf' = [pf EXCEPT !.called = TRUE,
                        !.result = compute_vwap_for_amount(pf.side, pf.levels,
                                                           pf.amount_base)]
    /\ UNCHANGED outsidePure

\* a call estimate_fee_aware_profit_pct(...)
CallEstimateProfit ==
    /\ pf.fn = "estimate_fee_aware_profit_pct"
    /\ ~pf.called
    /\ pf' = [pf EXCEPT !.called = TRUE,
                        !.result = estimate_fee_aware_profit_pct(
                            pf.buy_price, pf.sell_price, pf.base_amount,
                            pf.taker_fee_buy, pf.taker_fee_sell, pf.withdraw_fee_base)]
    /\ UNCHANGED outsidePure

\* a call get_taker_fee_for_market(exchange_id, market)
CallGetTakerFee ==
    /\ pf.fn = "get_taker_fee_for_market"
    /\ ~pf.called
    /\ pf' = [pf EXCEPT !.called = TRUE,
                        !.result = get_taker_fee_for_market(pf.exchange_id, pf.market)]
    /\ UNCHANGED outsidePure

\* _load_common_symbols on two freshly loaded exchanges, and the two symbol
\* indexes of scan_two_exchanges (scanner.py:49-55, 80-81)
CallLoadCommonSymbols ==
    /\ pf.fn = "load_common_symbols"
    /\ ~pf.called
    /\ LET markets_a == JList(BuildMarkets(pf.raw_a, "binance"))
           markets_b == JList(BuildMarkets(pf.raw_b, "kucoin"))
       IN  pf' = [pf EXCEPT
                    !.called = TRUE,
                    !.result = [symbols |-> find_common_symbols(markets_a, markets_b,
                                                               PreferredQuotes),
                                keys_a |-> DOMAIN Idx(markets_a),
                                keys_b |-> DOMAIN Idx(markets_b)]]
    /\ UNCHANGED outsidePure

-----------------------------------------------------------------------------
(* Claims about the pure helpers, under SpecPure *)

\* markets holds an active market of the pair
HasActive(markets, base, quote) ==
    \E i \in 1..Len(markets.items) :
        /\ DictGet(markets.items[i], "base") = JStr(base)
        /\ DictGet(markets.items[i], "quote") = JStr(quote)
        /\ Truthy(DictGetOr(markets.items[i], "active", JBool(TRUE)))

Preferred(quote, preferred_quotes) ==
    \/ preferred_quotes = <<>>
    \/ \E i \in 1..Len(preferred_quotes) : Upper(preferred_quotes[i]) = Upper(quote)

LexPos(x) == CHOOSE i \in 1..Len(LexOrder) : LexOrder[i] = x

\* C18: the result of find_common_symbols holds exactly the "BASE/QUOTE" of
\* the pairs with an active market in both lists whose quote is preferred
\* (case-insensitively) when preferred quotes are given, without duplicates
\* and in ascending order.
C18_CommonSymbols ==
    (pf.fn = "find_common_symbols" /\ pf.called) =>
        /\ {pf.result[i] : i \in 1..Len(pf.result)} =
              { Fmt(p[1], p[2]) : p \in
                  { q \in AssetCodes \X AssetCodes :
                      /\ HasActive(pf.markets_a, q[1], q[2])
                      /\ HasActive(pf.markets_b, q[1], q[2])
                      /\ Preferred(q[2], pf.preferred_quotes) } }
        /\ \A i \in 1..Len(pf.result), j \in 1..Len(pf.result) :
              i < j => LexPos(pf.result[i]) < LexPos(pf.result[j])

\* C18: a = {BTC/USDT, ETH/USDT}, b = {BTC/USDT, BTC/BUSD}, preferred =
\* [USDT] gives exactly ["BTC/USDT"]
C18_Witness ==
    /\ pf.fn = "find_common_symbols"
    /\ pf.called
    /\ pf.markets_a = JList(<<PureMarket("BTC", "USDT", Absent),
                              PureMarket("ETH", "USDT", JBool(TRUE))>>)
    /\ pf.markets_b = JList(<<PureMarket("BTC", "USDT", Absent),
                              PureMarket("BTC", "BUSD", Absent)>>)
    /\ pf.preferred_quotes = <<"USDT">>
    /\ pf.result = <<"BTC/USDT">>

Range(seq) == {seq[i] : i \in 1..Len(seq)}

\* the networks of the currency an exchange publishes a fee for
Published(fetched, code) ==
    IF fetched.raises \/ ~Truthy(fetched.value) THEN {}
    ELSE UNION { { np[1] : np \in
                     { nq \in Range(DictGetOr(cd[2], "networks", JDict(<<>>)).pairs) :
                         /\ NetDataFee(nq[2]) # None
                         /\ FloatOk(NetDataFee(nq[2])) } } :
                 cd \in { ce \in Range(fetched.value.pairs) :
                            /\ ce[1] = code
                            /\ Truthy(DictGetOr(ce[2], "networks", None)) } }

PublishedFee(fetched, code, net) ==
    FeesGet(extract_currency_network_fees(fetched), code)[net]

\* C19: find_cheapest_common_network_fee returns None exactly when an
\* exchange publishes no fee-bearing network for the currency (a failed
\* currency fetch included) or the two exchanges' networks do not intersect;
\* otherwise it returns a common network of minimal total fee, with exchange
\* A's fee on it.
C19_CheapestCommonNetwork ==
    (pf.fn = "find_cheapest_common_network_fee" /\ pf.called) =>
        LET pub_a == Published(pf.fetched_a, pf.currency_code)
            pub_b == Published(pf.fetched_b, pf.currency_code)
            Total(n) == RAdd(PublishedFee(pf.fetched_a, pf.currency_code, n),
                             PublishedFee(pf.fetched_b, pf.currency_code, n))
        IN  /\ (pf.result = None) <=>
                  (pub_a = {} \/ pub_b = {} \/ pub_a \cap pub_b = {})
            /\ pf.result # None =>
                  /\ pf.result.network \in pub_a \cap pub_b
                  /\ \A n \in pub_a \cap pub_b : RLe(Total(pf.result.network), Total(n))
                  /\ pf.result.fee =
                        PublishedFee(pf.fetched_a, pf.currency_code, pf.result.network)

\* C19: the cheapest network in total is not the cheapest on exchange A, and
\* it is returned with A's fee
C19_Witness ==
    /\ pf.fn = "find_cheapest_common_network_fee"
    /\ pf.called
    /\ pf.result # None
    /\ \E n \in Published(pf.fetched_a, "BTC") \cap Published(pf.fetched_b, "BTC") :
          RLt(PublishedFee(pf.fetched_a, "BTC", n),
              PublishedFee(pf.fetched_a, "BTC", pf.result.network))

\* C19: a failed currency fetch gives None, without an exception
C19_WitnessFetchFails ==
    /\ pf.fn = "find_cheapest_common_network_fee"
    /\ pf.called
    /\ pf.fetched_a.raises
    /\ Published(pf.fetched_b, "BTC") # {}
    /\ pf.result = None

RECURSIVE RSum(_)
RSum(xs) == IF xs = <<>> THEN RInt(0) ELSE RAdd(Head(xs), RSum(Tail(xs)))

\* the levels with two numeric fields, a positive price and a positive amount
ValidLevels(levels) ==
    SelectSeq(levels, LAMBDA l : /\ Len(l) >= 2
                                 /\ l[1].t = "num" /\ l[2].t = "num"
                                 /\ l[1].n > 0 /\ l[2].n > 0)

\* what is left of the request when the walk comes to the i-th valid level
LeftAt(valid, amount_base, i) ==
    RSub(amount_base, RSum([j \in 1..(i - 1) |-> RInt(valid[j][2].n)]))

\* the reference greedy fill: take_i = min(remaining, amount_i) on every
\* valid level the walk comes to; with a tolerance, the walk ends once what
\* is left is within it
GreedyTakes(valid, amount_base, tolerance) ==
    [ i \in 1..Len(valid) |->
        IF i > 1 /\ RLe(LeftAt(valid, amount_base, i), tolerance) THEN RInt(0)
        ELSE RMin(LeftAt(valid, amount_base, i), RInt(valid[i][2].n)) ]

GreedyQuote(valid, takes) ==
    RSum([i \in 1..Len(valid) |-> RMul(takes[i], RInt(valid[i][1].n))])

\* the result is the fill of the takes: its amount, its average price, and
\* the average between the lowest and the highest consumed price
IsFillOf(result, valid, takes) ==
    /\ result.filled = RSum(takes)
    /\ result.avg_price = RDiv(GreedyQuote(valid, takes), RSum(takes))
    /\ \E i \in 1..Len(valid) :
          RLt(RInt(0), takes[i]) /\ RLe(RInt(valid[i][1].n), result.avg_price)
    /\ \E i \in 1..Len(valid) :
          RLt(RInt(0), takes[i]) /\ RLe(result.avg_price, RInt(valid[i][1].n))

NoFill(levels, amount_base) ==
    RLe(amount_base, RInt(0)) \/ ValidLevels(levels) = <<>>

\* C20 as stated: compute_vwap_for_amount returns no value iff the amount
\* is not positive or no level is valid; otherwise filled =
\* min(amount_base, sum of the valid amounts) and the average price is
\* sum(take_i * price_i) / filled over the greedy takes.
C20_GreedyFillExact ==
    (pf.fn = "compute_vwap_for_amount" /\ pf.called) =>
        LET valid == ValidLevels(pf.levels)
            total == RSum([i \in 1..Len(valid) |-> RInt(valid[i][2].n)])
        IN  /\ (pf.result = None) <=> NoFill(pf.levels, pf.amount_base)
            /\ pf.result # None =>
                  /\ pf.result.filled = RMin(pf.amount_base, total)
                  /\ IsFillOf(pf.result, valid,
                              GreedyTakes(valid, pf.amount_base, RInt(0)))

\* C20, with the fill tolerance: compute_vwap_for_amount returns no value
\* iff the amount is not positive or no level is valid; otherwise it is the
\* greedy fill that ends once at most 1e-12 is left, so that filled is
\* min(amount_base, sum of the valid amounts) or short of it by at most
\* 1e-12, and the average price is sum(take_i * price_i) / filled, between
\* the lowest and the highest consumed price.
C20_GreedyFillWithinTolerance ==
    (pf.fn = "compute_vwap_for_amount" /\ pf.called) =>
        LET valid == ValidLevels(pf.levels)
            total == RSum([i \in 1..Len(valid) |-> RInt(valid[i][2].n)])
            cap == RMin(pf.amount_base, total)
        IN  /\ (pf.result = None) <=> NoFill(pf.levels, pf.amount_base)
            /\ pf.result # None =>
                  /\ RLe(pf.result.filled, cap)
                  /\ RLe(RSub(cap, pf.result.filled), RInt(FillTolerance))
                  /\ IsFillOf(pf.result, valid,
                              GreedyTakes(valid, pf.amount_base, RInt(FillTolerance)))

\* C20: a fill that ends with 1e-12 of the request left and depth to spare
C20_Witness ==
    /\ pf.fn = "compute_vwap_for_amount"
    /\ pf.called
    /\ pf.levels = <<Lv(100, 3), Lv(101, 2)>>
    /\ pf.amount_base = RInt(4)
    /\ pf.result = [avg_price |-> RInt(100), filled |-> RInt(3)]

\* C20: a fill over two levels, and a fill capped by the depth
C20_WitnessTwoLevels ==
    /\ pf.fn = "compute_vwap_for_amount"
    /\ pf.called
    /\ pf.levels = <<Lv(100, 3), Lv(101, 2)>>
    /\ pf.amount_base \in {RInt(5), RInt(6)}
    /\ pf.result = [avg_price |-> R(502, 5), filled |-> RInt(5)]

\* cost = base_amount * buy_price * (1 + taker_fee_buy)
ProfitCost == RMul(RMul(pf.base_amount, pf.buy_price), RAdd(RInt(1), pf.taker_fee_buy))

\* revenue = max(0, base_amount - withdraw_fee_base) * sell_price * (1 - taker_fee_sell)
ProfitRevenue ==
    IF RLe(pf.base_amount, pf.withdraw_fee_base) THEN RInt(0)
    ELSE RMul(RMul(RSub(pf.base_amount, pf.withdraw_fee_base), pf.sell_price),
              RSub(RInt(1), pf.taker_fee_sell))

\* C21: estimate_fee_aware_profit_pct returns -100 whenever the cost is not
\* positive, and otherwise (revenue - cost) / cost * 100; a withdrawal fee
\* of at least the base amount, with a positive cost, gives -100.
C21_ProfitFormula ==
    (pf.fn = "estimate_fee_aware_profit_pct" /\ pf.called) =>
        /\ RLe(ProfitCost, RInt(0)) => pf.result = RInt(-100)
        /\ RLt(RInt(0), ProfitCost) =>
              /\ RMul(pf.result, ProfitCost) =
                    RMul(RSub(ProfitRevenue, ProfitCost), RInt(100))
              /\ RLe(pf.base_amount, pf.withdraw_fee_base) => pf.result = RInt(-100)

\* C21: buy 100, sell 110, amount 1, all fees 0 gives 10
C21_Witness ==
    /\ pf.fn = "estimate_fee_aware_profit_pct"
    /\ pf.called
    /\ pf.buy_price = RInt(100) /\ pf.sell_price = RInt(110)
    /\ pf.base_amount = RInt(1)
    /\ pf.taker_fee_buy = RInt(0) /\ pf.taker_fee_sell = RInt(0)
    /\ pf.withdraw_fee_base = RInt(0)
    /\ pf.result = RInt(10)

\* C21: the sentinel, on a cost of 0
C21_WitnessSentinel ==
    /\ pf.fn = "estimate_fee_aware_profit_pct"
    /\ pf.called
    /\ ProfitCost = RInt(0)
    /\ RLt(RInt(0), ProfitRevenue)
    /\ pf.result = RInt(-100)

\* C22: get_taker_fee_for_market returns a rate in [0, 0.02]: 0 for a
\* negative rate, 0.02 for a rate above 0.02, the rate itself inside the
\* interval, and the default 0.001 for a market without a taker field.
C22_TakerClamp ==
    (pf.fn = "get_taker_fee_for_market" /\ pf.called) =>
        LET has == \E i \in 1..Len(pf.market.pairs) : pf.market.pairs[i][1] = "taker"
            published == DictGet(pf.market, "taker").n
        IN  /\ RLe(RInt(0), pf.result) /\ RLe(pf.result, R(2, 100))
            /\ ~has => pf.result = R(1, 1000)
            /\ (has /\ published < 0) => pf.result = RInt(0)
            /\ (has /\ published > 20) => pf.result = R(2, 100)
            /\ (has /\ published >= 0 /\ published <= 20) =>
                  pf.result = R(published, 1000)

\* C22: a published rate of 0.05 gives 0.02
C22_Witness ==
    /\ pf.fn = "get_taker_fee_for_market"
    /\ pf.called
    /\ DictGetOr(pf.market, "taker", None) = JNum(50)
    /\ pf.result = R(2, 100)

\* C28: every symbol find_common_symbols returns for the two loaded market
\* lists is a key of both symbol indexes, so that idx_a[sym] and idx_b[sym]
\* never fail.
C28_CommonSymbolsIndexed ==
    (pf.fn = "load_common_symbols" /\ pf.called) =>
        \A i \in 1..Len(pf.result.symbols) :
            /\ pf.result.symbols[i] \in pf.result.keys_a
            /\ pf.result.symbols[i] \in pf.result.keys_b

PureNext ==
    \/ CallLoadCommonSymbols
    \/ CallEstimateProfit
    \/ CallGetTakerFee
    \/ CallFindCommonSymbols
    \/ CallFindCheapest
    \/ CallComputeVwap

SpecPure == PureInit /\ [][PureNext]_vars

-----------------------------------------------------------------------------
(* Part 8: the command-line entry points of cli.py; specification SpecCli.   *)
(* A command runs from its call to "done"; the steps are cut at its awaits.  *)

MaxExchanges == 2   \* exchanges of EXCHANGES and of --exchanges: 1..MaxExchanges

DefaultSample == 200    \* cli.py:139, the default of --sample

\* exchange ids a user can write; "" is what an empty EXCHANGES entry gives
CliIds == {"binance", "kucoin", "nosuch", ""}

\* settings.exchanges: EXCHANGES split at the commas, never empty
CfgExchanges == UNION {[1..n -> CliIds] : n \in 1..MaxExchanges}

\* x or y, for strings; an option that was not given (None) is written ""
StrOr(x, y) == IF x = "" THEN y ELSE x

CliIdle ==
    [pc |-> "idle", cmd |-> "none", cfg |-> <<>>, exchanges |-> <<>>, i |-> 0,
     events |-> <<>>, result |-> <<>>, warned |-> <<>>, load_failures |-> <<>>,
     pending |-> FALSE, raised |-> FALSE, status |-> -1, printed |-> <<>>,
     args_a |-> "", args_b |-> "", a |-> "", b |-> "", scans |-> <<>>,
     sample |-> Absent, n |-> 0, total |-> 0, concurrency |-> 1, permits |-> 0,
     waiting |-> 0, inflight |-> 0, count |-> 0, complete |-> 0]

CliInit ==
    /\ cli = CliIdle
    /\ kv = EmptyTable
    /\ now = 0
    /\ written = <<>>
    /\ last = NoOp
    /\ lm = <<>>
    /\ lastLoad = <<>>
    /\ fob = <<>>
    /\ sc = <<>>
    /\ fo = <<>>
    /\ pf = <<>>

\* a client is constructed / closed; who is the place of its exchange in
\* the command
Created(st, who) == [st EXCEPT !.events = Append(@, [op |-> "create", who |-> who])]

Closed(st, who) == [st EXCEPT !.events = Append(@, [op |-> "close", who |-> who])]

\* mutation: the client is closed only after a step that succeeded
finally_close_on_success(ok) == ok

\* the finally blocks of cli.py: e.close() is awaited whether the try body
\* succeeded or raised
finally_close(ok) == TRUE

\* update-markets: cmd_update_markets(args, settings)
CallUpdateMarkets ==
    /\ cli.pc = "idle"
    /\ \E cfg \in CfgExchanges :
          cli' = [CliIdle EXCEPT !.cmd = "update-markets", !.cfg = cfg,
                                 !.exchanges = cfg, !.i = 1, !.pc = "create"]
    /\ UNCHANGED outsideCli

\* dump-markets: exchanges = args.exchanges or list(cfg.exchanges)
CallDumpMarkets ==
    /\ cli.pc = "idle"
    /\ \E cfg \in CfgExchanges, given \in {<<>>, <<"kucoin">>, <<"kucoin", "binance">>} :
          cli' = [CliIdle EXCEPT !.cmd = "dump-markets", !.cfg = cfg,
                                 !.exchanges = IF given # <<>> THEN given ELSE cfg,
                                 !.i = 1, !.pc = "create"]
    /\ UNCHANGED outsideCli

\* lines 31 and 65: e = await create_exchange(ex, cfg), before the try; an
\* id ccxt does not know raises out of the command
LoopCreate ==
    /\ cli.cmd \in {"update-markets", "dump-markets"}
    /\ cli.pc = "create"
    /\ cli' = IF Supported(cli.exchanges[cli.i])
              THEN [Created(cli, cli.i) EXCEPT !.pc = "load"]
              ELSE [cli EXCEPT !.pc = "done", !.raised = TRUE, !.status = 1]
    /\ UNCHANGED outsideCli

\* lines 33-37 and 67-71: load_all_markets returns, or raises and the
\* command logs a warning
LoopLoad ==
    /\ cli.cmd \in {"update-markets", "dump-markets"}
    /\ cli.pc = "load"
    /\ \E ok \in BOOLEAN :
          cli' = [cli EXCEPT
                    !.pc = IF finally_close(ok) THEN "close" ELSE "next",
                    !.result = IF ok THEN Append(@, cli.exchanges[cli.i]) ELSE @,
                    !.warned = IF ok THEN @ ELSE Append(@, cli.exchanges[cli.i]),
                    !.load_failures = IF ok THEN @ ELSE Append(@, cli.exchanges[cli.i])]
    /\ UNCHANGED outsideCli

\* the end of one iteration: the next exchange, or the lines after the loop
LoopAdvance(st) ==
    IF st.i < Len(st.exchanges) THEN [st EXCEPT !.i = st.i + 1, !.pc = "create"]
    ELSE [st EXCEPT !.pc = "summary"]

\* lines 38-42 and 72-76: await e.close(), its own failure swallowed
LoopClose ==
    /\ cli.cmd \in {"update-markets", "dump-markets"}
    /\ cli.pc \in {"close", "next"}
    /\ cli' = LoopAdvance(IF cli.pc = "close" THEN Closed(cli, cli.i) ELSE cli)
    /\ UNCHANGED outsideCli

\* lines 43 and 78-85: the summary line, the file or the per-exchange counts
LoopSummary ==
    /\ cli.cmd \in {"update-markets", "dump-markets"}
    /\ cli.pc = "summary"
    /\ cli' = [cli EXCEPT !.pc = "done", !.status = 0,
                          !.printed = Append(@, "summary")]
    /\ UNCHANGED outsideCli

\* how many markets load_all_markets returns to fetch-orderbooks
MarketCounts == {0, 1, 3, DefaultSample + 1}

\* --sample: not given, or a number
SampleChoices == {Absent, JNum(0), JNum(1), JNum(3)}

\* line 139: argparse fills in the default when --sample is not given
parse_sample(given) == IF given = Absent THEN DefaultSample ELSE given.n

\* lines 96-98: how many symbols are left of n after symbols[: args.sample]
selected_count(n, sample) ==
    IF sample # 0 /\ sample > 0 THEN (IF sample < n THEN sample ELSE n) ELSE n

\* what fetch_order_book_safe answers a worker with
WorkerBooks ==
    { [tag |-> "none", ob |-> None],
      [tag |-> "empty", ob |-> OrderBook(<<>>, <<>>)],
      [tag |-> "asks only", ob |-> OrderBook(<<Lv(2, 4)>>, <<>>)],
      [tag |-> "complete", ob |-> OrderBook(<<Lv(2, 4)>>, <<Lv(1, 4)>>)] }

\* mutation: any book that came back counts
book_counts_if_any(ob) == ob # None

\* line 106: ob and ob.get("bids") and ob.get("asks")
book_counts(ob) == ob # None /\ ob.bids # <<>> /\ ob.asks # <<>>

\* fetch-orderbooks: cmd_fetch_orderbooks(args, settings)
CallFetchOrderbooks ==
    /\ cli.pc = "idle"
    /\ \E ex \in {"binance", "nosuch"}, given \in SampleChoices,
          c \in 1..MaxConcurrency :
          cli' = [CliIdle EXCEPT !.cmd = "fetch-orderbooks", !.exchanges = <<ex>>,
                                 !.i = 1, !.sample = given, !.concurrency = c,
                                 !.pc = "create"]
    /\ UNCHANGED outsideCli

\* line 93: e = await create_exchange(ex_id, cfg), before the try
FetchCreate ==
    /\ cli.cmd = "fetch-orderbooks"
    /\ cli.pc = "create"
    /\ cli' = IF Supported(cli.exchanges[1])
              THEN [Created(cli, 1) EXCEPT !.pc = "load"]
              ELSE [cli EXCEPT !.pc = "done", !.raised = TRUE, !.status = 1]
    /\ UNCHANGED outsideCli

\* lines 95-100: the markets load, the symbols are cut to the sample and
\* the limiter is made; a load that raises goes to the finally block
FetchLoad ==
    /\ cli.cmd = "fetch-orderbooks"
    /\ cli.pc = "load"
    /\ \/ \E n \in MarketCounts :
             cli' = [cli EXCEPT
                       !.pc = "workers", !.n = n,
                       !.total = selected_count(n, parse_sample(cli.sample)),
                       !.waiting = selected_count(n, parse_sample(cli.sample)),
                       !.permits = cli.concurrency]
       \/ cli' = [cli EXCEPT !.pc = IF finally_close(FALSE) THEN "close" ELSE "done",
                             !.pending = TRUE,
                             !.raised = ~finally_close(FALSE),
                             !.load_failures = Append(@, cli.exchanges[1])]
    /\ UNCHANGED outsideCli

\* line 104: a worker enters the limiter
WorkerAcquire ==
    /\ cli.cmd = "fetch-orderbooks"
    /\ cli.pc = "workers"
    /\ cli.waiting > 0
    /\ sem_can_acquire(cli.permits)
    /\ cli' = [cli EXCEPT !.waiting = @ - 1, !.inflight = @ + 1, !.permits = @ - 1]
    /\ UNCHANGED outsideCli

\* lines 105-107: the fetch of a worker returns; up to the release of the
\* limiter the worker does not await again
WorkerDone ==
    /\ cli.cmd = "fetch-orderbooks"
    /\ cli.pc = "workers"
    /\ cli.inflight > 0
    /\ \E bk \in WorkerBooks :
          cli' = [cli EXCEPT
                    !.inflight = @ - 1,
                    !.permits = aexit_release(@, FALSE),
                    !.count = IF book_counts(bk.ob) THEN @ + 1 ELSE @,
                    !.complete = IF bk.tag = "complete" THEN @ + 1 ELSE @]
    /\ UNCHANGED outsideCli

\* lines 109-110: gather returns and the line "Fetched count/len(symbols)"
\* is printed
FetchPrint ==
    /\ cli.cmd = "fetch-orderbooks"
    /\ cli.pc = "workers"
    /\ cli.waiting = 0 /\ cli.inflight = 0
    /\ cli' = [cli EXCEPT
                 !.pc = IF finally_close(TRUE) THEN "close" ELSE "done",
                 !.status = IF finally_close(TRUE) THEN @ ELSE 0,
                 !.printed = Append(@, [fetched |-> cli.count, total |-> cli.total])]
    /\ UNCHANGED outsideCli

\* lines 111-115: await e.close(), its own failure swallowed; an exception
\* of the try body then leaves the command
FetchClose ==
    /\ cli.cmd = "fetch-orderbooks"
    /\ cli.pc = "close"
    /\ cli' = [Closed(cli, 1) EXCEPT !.pc = "done", !.raised = cli.pending,
                                     !.status = IF cli.pending THEN 1 ELSE 0]
    /\ UNCHANGED outsideCli

\* scan-simple: cmd_scan_simple(args, settings), lines 47-53 up to the
\* first await of the scan; an option that was not given is ""
CallScanSimple ==
    /\ cli.pc = "idle"
    /\ \E cfg \in CfgExchanges, args_a \in {"", "binance"}, args_b \in {"", "kucoin"} :
          LET a == StrOr(args_a, cfg[1])
              b == StrOr(args_b, IF Len(cfg) > 1 THEN cfg[2] ELSE "")
              st == [CliIdle EXCEPT !.cmd = "scan-simple", !.cfg = cfg,
                                    !.args_a = args_a, !.args_b = args_b,
                                    !.a = a, !.b = b]
          IN  cli' = IF b = ""
                     THEN [st EXCEPT !.pc = "done", !.status = 1,
                                     !.printed = Append(@, "usage")]
                     ELSE [st EXCEPT !.pc = "create_a", !.exchanges = <<a, b>>,
                                     !.scans = Append(@, <<a, b>>)]
    /\ UNCHANGED outsideCli

\* scanner.py line 45: ex_a = await create_exchange(a, settings)
ScanCreateA ==
    /\ cli.cmd = "scan-simple"
    /\ cli.pc = "create_a"
    /\ cli' = IF Supported(cli.a)
              THEN [Created(cli, 1) EXCEPT !.pc = "create_b"]
              ELSE [cli EXCEPT !.pc = "done", !.raised = TRUE, !.status = 1]
    /\ UNCHANGED outsideCli

\* scanner.py line 46: ex_b = await create_exchange(b, settings), still
\* before the try of scan_two_exchanges
ScanCreateB ==
    /\ cli.cmd = "scan-simple"
    /\ cli.pc = "create_b"
    /\ cli' = IF Supported(cli.b)
              THEN [Created(cli, 2) EXCEPT !.pc = "load"]
              ELSE [cli EXCEPT !.pc = "done", !.raised = TRUE, !.status = 1]
    /\ UNCHANGED outsideCli

\* scanner.py lines 49-55 and 71: the two loads are gathered; one that
\* raises is re-raised by the gather and nothing in the scan or in the
\* command catches it
ScanLoad ==
    /\ cli.cmd = "scan-simple"
    /\ cli.pc = "load"
    /\ \E ok_a \in BOOLEAN, ok_b \in BOOLEAN :
          cli' = IF ok_a /\ ok_b
                 THEN [cli EXCEPT !.pc = "body", !.result = <<cli.a, cli.b>>]
                 ELSE [cli EXCEPT
                         !.pc = "close_a", !.pending = TRUE,
                         !.load_failures =
                             (IF ok_a THEN <<>> ELSE <<cli.a>>)
                             \o (IF ok_b THEN <<>> ELSE <<cli.b>>)]
    /\ UNCHANGED outsideCli

\* scanner.py lines 72-238: the rest of the pass, which returns the
\* opportunities or raises
ScanBody ==
    /\ cli.cmd = "scan-simple"
    /\ cli.pc = "body"
    /\ \E ok \in BOOLEAN : cli' = [cli EXCEPT !.pc = "close_a", !.pending = ~ok]
    /\ UNCHANGED outsideCli

\* scanner.py lines 241-244: await ex_a.close(), its failure swallowed
ScanCloseA ==
    /\ cli.cmd = "scan-simple"
    /\ cli.pc = "close_a"
    /\ cli' = [Closed(cli, 1) EXCEPT !.pc = "close_b"]
    /\ UNCHANGED outsideCli

\* scanner.py lines 245-248: await ex_b.close(); a pending exception then
\* leaves the scan, the command and main
ScanCloseB ==
    /\ cli.cmd = "scan-simple"
    /\ cli.pc = "close_b"
    /\ cli' = [Closed(cli, 2) EXCEPT !.pc = "done", !.raised = cli.pending,
                                     !.status = IF cli.pending THEN 1 ELSE 0]
    /\ UNCHANGED outsideCli

\* ---- claims about SpecCli ----

\* how often the client of place who was constructed / closed
EventCount(st, op, who) ==
    Cardinality({k \in 1..Len(st.events) :
                   st.events[k] = [op |-> op, who |-> who]})

\* the clients that are open after the first k events
OpenAfter(st, k) ==
    {w \in 1..MaxExchanges + 1 :
       \E c \in 1..k :
          /\ st.events[c] = [op |-> "create", who |-> w]
          /\ \A d \in c + 1..k : st.events[d] # [op |-> "close", who |-> w]}

\* the command ended because create_exchange raised
CreateRaised(st) == st.pc = "done" /\ st.raised /\ ~st.pending

\* C23: when the markets of one exchange fail to load while scan-simple
\* scans two exchanges, or while update-markets or dump-markets go through
\* theirs, the failure is logged for that exchange and the command still
\* completes: nothing propagates, and every exchange was processed.
C23_PartialFailureContained ==
    (/\ cli.pc = "done"
     /\ cli.cmd \in {"scan-simple", "update-markets", "dump-markets"}
     /\ cli.load_failures # <<>>
     /\ ~CreateRaised(cli))
    => /\ ~cli.raised
       /\ cli.status = 0
       /\ cli.warned = cli.load_failures
       /\ \A k \in 1..Len(cli.exchanges) : EventCount(cli, "create", k) = 1

\* C24: update-markets, dump-markets and fetch-orderbooks close every
\* client they construct exactly once, whether the load or the fetches
\* succeed or fail; in update-markets and dump-markets at most one client is
\* open at any time.
C24_ClientsClosedOnce ==
    cli.cmd \in {"update-markets", "dump-markets", "fetch-orderbooks"}
    => /\ \A w \in 1..MaxExchanges + 1 :
            /\ EventCount(cli, "create", w) <= 1
            /\ EventCount(cli, "close", w) <= EventCount(cli, "create", w)
            /\ cli.pc = "done" =>
                  EventCount(cli, "close", w) = EventCount(cli, "create", w)
       /\ cli.cmd # "fetch-orderbooks" =>
            \A k \in 0..Len(cli.events) : Cardinality(OpenAfter(cli, k)) <= 1

\* a finished dump or update of two exchanges, the first load failed, both
\* clients closed
C24_Witness ==
    /\ cli.pc = "done"
    /\ cli.cmd \in {"update-markets", "dump-markets"}
    /\ Len(cli.load_failures) = 1
    /\ cli.load_failures[1] = cli.exchanges[1]
    /\ cli.events = << [op |-> "create", who |-> 1], [op |-> "close", who |-> 1],
                       [op |-> "create", who |-> 2], [op |-> "close", who |-> 2] >>

\* a fetch-orderbooks whose load raised, the client closed once
C24_WitnessFetchFails ==
    /\ cli.pc = "done"
    /\ cli.cmd = "fetch-orderbooks"
    /\ cli.raised
    /\ cli.load_failures # <<>>
    /\ cli.events = << [op |-> "create", who |-> 1], [op |-> "close", who |-> 1] >>

\* C25: scan-simple takes a from --a or the first configured exchange and b
\* from --b or the second; with fewer than two exchanges resolved it prints
\* the usage line and exits with status 1, no client constructed and no
\* scan run; otherwise it runs exactly one pass of (a, b).
C25_ScanSimpleResolution ==
    (cli.cmd = "scan-simple" /\ cli.pc = "done")
    => LET a == StrOr(cli.args_a, cli.cfg[1])
           b == StrOr(cli.args_b, IF Len(cli.cfg) > 1 THEN cli.cfg[2] ELSE "")
       IN  IF a = "" \/ b = ""
           THEN /\ cli.printed = <<"usage">>
                /\ cli.status = 1
                /\ cli.events = <<>>
                /\ cli.scans = <<>>
           ELSE /\ cli.scans = << <<a, b>> >>
                /\ cli.printed = <<>>

\* C26 as stated, with no --sample selecting every symbol: fetch-orderbooks
\* prints fetched/total, total the number of selected symbols (the first N
\* for --sample N > 0, all of them for N = 0 or no --sample) and fetched the
\* number of them whose book has bids and asks.
C26_FetchedOfTotalUnsetIsAll ==
    (cli.cmd = "fetch-orderbooks" /\ cli.printed # <<>>)
    => LET N == cli.sample
           total == IF N = Absent \/ N.n = 0 THEN cli.n
                    ELSE IF N.n < cli.n THEN N.n ELSE cli.n
       IN  cli.printed = << [fetched |-> cli.complete, total |-> total] >>

\* C26: fetch-orderbooks prints fetched/total, total the number of
\* selected symbols, which are the first N for --sample N > 0, N being 200
\* when --sample is not given, and all of them for N = 0; fetched is the
\* number of selected symbols whose book has bids and asks, whatever the
\* interleaving of the workers.
C26_FetchedOfTotal ==
    (cli.cmd = "fetch-orderbooks" /\ cli.printed # <<>>)
    => LET N == IF cli.sample = Absent THEN DefaultSample ELSE cli.sample.n
           total == IF N > 0 /\ N < cli.n THEN N ELSE cli.n
       IN  cli.printed = << [fetched |-> cli.complete, total |-> total] >>

\* three symbols, two complete books and one that is not: "2/3", with
\* two workers inside the limiter at once on the way
C26_Witness ==
    /\ cli.cmd = "fetch-orderbooks"
    /\ cli.sample = JNum(0)
    /\ cli.n = 3
    /\ cli.concurrency > 1
    /\ cli.printed = << [fetched |-> 2, total |-> 3] >>

\* no --sample and more than 200 markets: the report is out of 200
C26_WitnessDefault ==
    /\ cli.cmd = "fetch-orderbooks"
    /\ cli.sample = Absent
    /\ cli.n = DefaultSample + 1
    /\ cli.printed # <<>>
    /\ cli.printed[1].total = DefaultSample

CliNext ==
    \/ CallScanSimple
    \/ ScanCreateA
    \/ ScanCreateB
    \/ ScanLoad
    \/ ScanBody
    \/ ScanCloseA
    \/ ScanCloseB
    \/ CallFetchOrderbooks
    \/ FetchCreate
    \/ FetchLoad
    \/ WorkerAcquire
    \/ WorkerDone
    \/ FetchPrint
    \/ FetchClose
    \/ CallUpdateMarkets
    \/ CallDumpMarkets
    \/ LoopCreate
    \/ LoopLoad
    \/ LoopClose
    \/ LoopSummary

SpecCli == CliInit /\ [][CliNext]_vars

====
